---- MODULE Spec2Model ----
(***************************************************************************)
(* Replenishment decision engine of svc-forecast: CoverageCalculator,      *)
(* RiskAssessor, SupplierSchedule, PricingEngine and SupplierOptimizer.    *)
(*                                                                         *)
(* Numbers.  The Python code computes on floats.  The model computes on    *)
(* exact decimal fixed-point numbers:                                      *)
(*   - stock and demand are integers counting 1/Scale units,               *)
(*   - safety factors are integers counting 1/FactorScale,                 *)
(*   - reported day counts (rounded to 2 decimals) are integers counting   *)
(*     1/100 day,                                                          *)
(*   - money is counted in cents, reliabilities in percent.                *)
(* Quotients are never formed: every comparison of a quotient is done by   *)
(* cross-multiplication, and ceil / round are integer operators.  On the   *)
(* input grids of this module the exact results are those of the doubles,  *)
(* with one exception that the model keeps: the product                    *)
(* days_until_delivery * 0.4 of RiskAssessor (see FortyPercentRoundsUp).   *)
(* Days are day numbers, day 0 being a Monday.                             *)
(***************************************************************************)
EXTENDS Integers, Sequences, FiniteSets, TLC

VARIABLES
    current_stock,          \* argument: stock, in 1/Scale units
    daily_demand,           \* argument: demand per day, in 1/Scale units
    include_safety_stock,   \* argument: BOOLEAN
    safety_factor,          \* argument: in 1/FactorScale
    order_quantity,         \* argument: units to order (supplier calls)
    from_date,              \* argument: the day of the call, 0 = a Monday
    suppliers,              \* SupplierSchedule.suppliers, in insertion order
    prices,                 \* PricingEngine.prices: sku -> (supplier_id -> cents)
    op,                     \* the operation called last
    call,                   \* its other arguments
    result                  \* the value it returned

vars == <<current_stock, daily_demand, include_safety_stock, safety_factor,
          order_quantity, from_date, suppliers, prices, op, call, result>>

-----------------------------------------------------------------------------
(* Fixed-point arithmetic *)

Scale == 10 ^ 4
FactorScale == 10 ^ 1
Centi == 10 ^ 2

\* Optional[x]: None is the empty sequence, a present value a one-element one.
None == << >>
Some(x) == << x >>

Max(a, b) == IF a >= b THEN a ELSE b

\* math.ceil(n / m) for m > 0 (\div rounds towards minus infinity)
Ceil(n, m) == -((-n) \div m)

\* round(n / m, 2) for m > 0, in 1/100: nearest, ties to even
Round2Down(n, m) == (Centi * n) \div m
Round2(n, m) ==
    LET q == (Centi * n) \div m
        r == (Centi * n) - q * m
    IN  IF 2 * r < m THEN q
        ELSE IF 2 * r > m THEN q + 1
        ELSE IF q % 2 = 0 THEN q ELSE q + 1

\* f"{n / m:.1f}" for n >= 0, m > 0
Format1(n, m) ==
    LET q == (10 * n) \div m
        r == (10 * n) - q * m
        t == IF 2 * r < m THEN q
             ELSE IF 2 * r > m THEN q + 1
             ELSE IF q % 2 = 0 THEN q ELSE q + 1
    IN  ToString(t \div 10) \o "." \o ToString(t % 10)

\* a float kept exact, as the fraction num / den
Frac(n, m) == [num |-> n, den |-> m]

-----------------------------------------------------------------------------
(* CoverageCalculator *)

MAX_COVERAGE_DAYS == 365

\* the literal 0.001 of the no-demand tests, in 1/Scale
DemandEpsilon == Scale \div 1000

standard_periods == <<1, 7, 14, 30, 60, 90>>

\* `daily_demand <= 0 or daily_demand < 0.001`
NoDemandMutant(demand) == demand <= 0
NoDemand(demand) == demand <= 0 \/ demand < DemandEpsilon

\* _safe_future_date(days), days = num/den with den > 0: None at or beyond the
\* cap, else now + days (kept as the offset from now)
SafeFutureDateMutant(num, den) ==
    IF num > MAX_COVERAGE_DAYS * den THEN None ELSE Some(Frac(num, den))
SafeFutureDate(num, den) ==
    IF num >= MAX_COVERAGE_DAYS * den THEN None ELSE Some(Frac(num, den))

\* the if/elif ladder on days_remaining = num/den
CoverageStatusMutant(num, den) ==
    IF num < 1 * den THEN "CRITICAL"
    ELSE IF num < 3 * den THEN "URGENT"
    ELSE IF num <= 7 * den THEN "LOW"
    ELSE IF num < 30 * den THEN "GOOD"
    ELSE "OVERSTOCKED"
CoverageStatus(num, den) ==
    IF num < 1 * den THEN "CRITICAL"
    ELSE IF num < 3 * den THEN "URGENT"
    ELSE IF num < 7 * den THEN "LOW"
    ELSE IF num < 30 * den THEN "GOOD"
    ELSE "OVERSTOCKED"

CoverageMessage(status, days) ==
    CASE status = "CRITICAL" -> "CRITICAL: Stock will run out in " \o days \o " days"
      [] status = "URGENT" -> "URGENT: Only " \o days \o " days of stock remaining"
      [] OTHER -> status \o ": " \o days \o " days of stock remaining"

calculate_current_coverage(stock, demand) ==
    IF NoDemand(demand)
    THEN [current_stock |-> stock,
          daily_demand |-> demand,
          days_remaining |-> MAX_COVERAGE_DAYS * Centi,
          stockout_date |-> None,
          status |-> "NO_DEMAND",
          message |-> "No demand detected - stock will last indefinitely"]
    ELSE LET capped == stock >= MAX_COVERAGE_DAYS * demand
             \* days_remaining = min(stock / demand, 365) = num / den
             num == IF capped THEN MAX_COVERAGE_DAYS ELSE stock
             den == IF capped THEN 1 ELSE demand
             status == CoverageStatus(num, den)
         IN  [current_stock |-> stock,
              daily_demand |-> demand,
              days_remaining |-> Round2(num, den),
              stockout_date |-> SafeFutureDate(num, den),
              status |-> status,
              message |-> CoverageMessage(status, Format1(num, den))]

\* safety_factor: float = 1.2, in 1/FactorScale
DefaultSafetyFactor == 12

\* required_stock - current_stock, in 1/(Scale * FactorScale)
ShortfallNoFactor(stock, demand, target, safety, factor) ==
    demand * target * FactorScale - stock * FactorScale
ShortfallReversed(stock, demand, target, safety, factor) ==
    stock * FactorScale - demand * target * (IF safety THEN factor ELSE FactorScale)
Shortfall(stock, demand, target, safety, factor) ==
    demand * target * (IF safety THEN factor ELSE FactorScale) - stock * FactorScale

OrderUnitsRoundedDown(stock, demand, target, safety, factor) ==
    Max(0, Shortfall(stock, demand, target, safety, factor) \div (Scale * FactorScale))
OrderUnits(stock, demand, target, safety, factor) ==
    Max(0, Ceil(Shortfall(stock, demand, target, safety, factor), Scale * FactorScale))

calculate_order_quantity(stock, demand, target, safety, factor) ==
    IF NoDemand(demand)
    THEN [order_quantity |-> 0,
          target_coverage_days |-> target,
          current_stock |-> stock,
          final_stock |-> stock,
          actual_coverage_days |-> MAX_COVERAGE_DAYS * Centi,
          includes_safety_stock |-> safety,
          safety_factor |-> IF safety THEN factor ELSE FactorScale,
          daily_demand |-> 0,
          message |-> "No demand - no order needed"]
    ELSE LET units == OrderUnits(stock, demand, target, safety, factor)
             final_stock == stock + units * Scale
         IN  [order_quantity |-> units,
              target_coverage_days |-> target,
              current_stock |-> stock,
              final_stock |-> final_stock,
              actual_coverage_days |-> Round2(final_stock, demand),
              includes_safety_stock |-> safety,
              safety_factor |-> IF safety THEN factor ELSE FactorScale,
              daily_demand |-> demand]

period_label(days) ==
    CASE days = 1 -> "1 Day"
      [] days = 7 -> "1 Week"
      [] days = 14 -> "2 Weeks"
      [] days = 30 -> "1 Month"
      [] days = 60 -> "2 Months"
      [] days = 90 -> "3 Months"
      [] OTHER -> ToString(days) \o " Days"

generate_scenarios(stock, demand, custom_periods, safety, factor) ==
    LET periods == IF custom_periods # << >> THEN custom_periods ELSE standard_periods
        scenario(days) ==
            LET calc == calculate_order_quantity(stock, demand, days, safety, factor)
            IN  [label |-> period_label(days),
                 coverage_days |-> days,
                 order_quantity |-> calc.order_quantity,
                 final_stock |-> calc.final_stock,
                 actual_coverage |-> calc.actual_coverage_days,
                 includes_safety_stock |-> safety,
                 safety_factor |-> calc.safety_factor]
    IN  [current_coverage |-> calculate_current_coverage(stock, demand),
         scenarios |-> [i \in 1..Len(periods) |-> scenario(periods[i])],
         daily_demand |-> demand,
         safety_factor |-> IF safety THEN factor ELSE FactorScale]

\* the if/elif chain of recommend_scenario on demand_pattern
RecommendedDaysSeasonalThree(demand_pattern, lead_time_days) ==
    CASE demand_pattern = "STEADY" -> Max(14, lead_time_days * 2)
      [] demand_pattern = "GROWING" -> Max(30, lead_time_days * 3)
      [] demand_pattern = "DECLINING" -> Max(7, lead_time_days)
      [] demand_pattern = "SEASONAL" -> Max(30, lead_time_days * 3)
      [] demand_pattern = "ERRATIC" -> Max(14, lead_time_days * 2)
      [] OTHER -> 14
RecommendedDaysDecliningWeek(demand_pattern, lead_time_days) ==
    CASE demand_pattern = "STEADY" -> Max(14, lead_time_days * 2)
      [] demand_pattern = "GROWING" -> Max(30, lead_time_days * 3)
      [] demand_pattern = "DECLINING" -> 7
      [] demand_pattern = "SEASONAL" -> Max(30, lead_time_days * 4)
      [] demand_pattern = "ERRATIC" -> Max(14, lead_time_days * 2)
      [] OTHER -> 14
RecommendedDays(demand_pattern, lead_time_days) ==
    CASE demand_pattern = "STEADY" -> Max(14, lead_time_days * 2)
      [] demand_pattern = "GROWING" -> Max(30, lead_time_days * 3)
      [] demand_pattern = "DECLINING" -> Max(7, lead_time_days)
      [] demand_pattern = "SEASONAL" -> Max(30, lead_time_days * 4)
      [] demand_pattern = "ERRATIC" -> Max(14, lead_time_days * 2)
      [] OTHER -> 14

RecommendedReason(demand_pattern) ==
    CASE demand_pattern = "STEADY" -> "Stable demand - order 2-4 weeks supply"
      [] demand_pattern = "GROWING" ->
             "Growing demand - order more to cover increasing sales"
      [] demand_pattern = "DECLINING" ->
             "Declining demand - order less to avoid excess inventory"
      [] demand_pattern = "SEASONAL" ->
             "Seasonal pattern - build buffer for demand peaks"
      [] demand_pattern = "ERRATIC" ->
             "Unpredictable demand - moderate coverage with safety stock"
      [] OTHER -> "Standard coverage recommendation"

recommend_scenario(stock, demand, demand_pattern, lead_time_days) ==
    LET recommended_days == RecommendedDays(demand_pattern, lead_time_days)
        calc == calculate_order_quantity(stock, demand, recommended_days, TRUE,
                                         DefaultSafetyFactor)
    IN  [recommended_coverage_days |-> recommended_days,
         order_quantity |-> calc.order_quantity,
         final_stock |-> calc.final_stock,
         actual_coverage |-> calc.actual_coverage_days,
         demand_pattern |-> demand_pattern,
         reason |-> RecommendedReason(demand_pattern),
         lead_time_days |-> lead_time_days]


-----------------------------------------------------------------------------
(* CoverageCalculator.compare_suppliers_coverage, BulkOrderCalculator *)

\* Unit prices of these calls count 1/Milli (three decimals), percentages are
\* whole numbers, and rounded money counts cents.
PriceScale == 10 ^ 3

\* round(n / m) for m > 0: nearest, ties to even
RoundHalfEven(n, m) ==
    LET q == n \div m
        r == n - q * m
    IN  IF 2 * r < m THEN q
        ELSE IF 2 * r > m THEN q + 1
        ELSE IF q % 2 = 0 THEN q ELSE q + 1

\* list.sort(key=...) and sorted(..., key=...): items by ascending keys[i],
\* items of equal keys in their original order
StableSort(items, keys) ==
    LET rank(i) == 1 + Cardinality({j \in DOMAIN items :
                        keys[j] < keys[i] \/ (keys[j] = keys[i] /\ j < i)})
    IN  [r \in DOMAIN items |-> items[CHOOSE i \in DOMAIN items : rank(i) = r]]

\* comparisons.sort(key=lambda x: x['total_cost'])
UnsortedByCost(comparisons) == comparisons
SortByCost(comparisons) ==
    StableSort(comparisons, [i \in DOMAIN comparisons |-> comparisons[i].total_cost])

\* supplier_prices is a dict in insertion order: a sequence of
\* [supplier_id, price] with distinct ids
compare_suppliers_coverage(stock, demand, coverage_days, supplier_prices) ==
    LET calc == calculate_order_quantity(stock, demand, coverage_days, TRUE,
                                         DefaultSafetyFactor)
        entry(quote) ==
            [supplier_id |-> quote.supplier_id,
             unit_price |-> quote.price,
             order_quantity |-> calc.order_quantity,
             total_cost |-> RoundHalfEven(calc.order_quantity * quote.price * Centi,
                                          PriceScale),
             coverage_days |-> coverage_days,
             final_stock |-> calc.final_stock]
        comparisons == SortByCost([i \in DOMAIN supplier_prices |->
                                      entry(supplier_prices[i])])
        costs == {comparisons[i].total_cost : i \in DOMAIN comparisons}
        max_cost == CHOOSE c \in costs : \A d \in costs : c >= d
        finished(comp) ==
            LET savings == max_cost - comp.total_cost
            IN  comp @@ [savings |-> savings,
                         \* round(savings / max_cost * 100, 1), in tenths
                         savings_percent |->
                             IF max_cost > 0
                             THEN RoundHalfEven(savings * 100 * 10, max_cost)
                             ELSE 0,
                         is_cheapest |-> comp.total_cost = comparisons[1].total_cost]
    IN  [i \in DOMAIN comparisons |-> finished(comparisons[i])]

\* the if/elif of calculate_moq_compliance
AdjustedQuantityRoundedDown(quantity, moq, moq_increment) ==
    IF quantity < moq THEN moq
    ELSE IF moq_increment > 1 THEN (quantity \div moq_increment) * moq_increment
    ELSE quantity
AdjustedQuantity(quantity, moq, moq_increment) ==
    IF quantity < moq THEN moq
    ELSE IF moq_increment > 1 THEN Ceil(quantity, moq_increment) * moq_increment
    ELSE quantity

calculate_moq_compliance(quantity, moq, moq_increment) ==
    LET adjusted_quantity == AdjustedQuantity(quantity, moq, moq_increment)
    IN  [requested_quantity |-> quantity,
         adjusted_quantity |-> adjusted_quantity,
         moq |-> moq,
         moq_increment |-> moq_increment,
         extra_units |-> adjusted_quantity - quantity,
         reason |-> IF quantity < moq
                    THEN "Increased to meet MOQ of " \o ToString(moq)
                    ELSE IF moq_increment > 1
                    THEN "Rounded to nearest increment of " \o ToString(moq_increment)
                    ELSE "No adjustment needed"]

\* sorted(discount_tiers, key=lambda x: x['min_qty'], reverse=True): by
\* descending min_qty, tiers of equal min_qty in their original order
SortTiersAscending(discount_tiers) ==
    StableSort(discount_tiers, [i \in DOMAIN discount_tiers |-> discount_tiers[i].min_qty])
SortTiers(discount_tiers) ==
    StableSort(discount_tiers, [i \in DOMAIN discount_tiers |-> -discount_tiers[i].min_qty])

\* the first tier of the sorted list that the quantity reaches
ApplicableTier(quantity, discount_tiers) ==
    LET sorted == SortTiers(discount_tiers)
        reached == {i \in DOMAIN sorted : quantity >= sorted[i].min_qty}
    IN  IF reached = {} THEN None
        ELSE Some(sorted[CHOOSE i \in reached : \A j \in reached : i <= j])

calculate_volume_discount(quantity, base_price, discount_tiers) ==
    LET tier == ApplicableTier(quantity, discount_tiers)
        applicable_discount == IF tier = None THEN 0 ELSE tier[1].discount_percent
        \* in 1/(PriceScale * 100)
        discount_amount == base_price * applicable_discount
        final_price == base_price * 100 - discount_amount
    IN  [order_quantity |-> quantity,
         base_price |-> base_price,
         discount_percent |-> applicable_discount,
         discount_amount |-> RoundHalfEven(discount_amount, PriceScale),
         final_price |-> RoundHalfEven(final_price, PriceScale),
         total_cost |-> RoundHalfEven(final_price * quantity, PriceScale),
         total_savings |-> RoundHalfEven(discount_amount * quantity, PriceScale),
         tier |-> tier]

-----------------------------------------------------------------------------
(* Supplier, SupplierSchedule *)

\* datetime.weekday() of day number d, 0 = Monday
Weekday(d) == d % 7

Supplier(id, name, order_days, lead_time_days, cutoff_time, reliability, notes) ==
    [id |-> id, name |-> name, order_days |-> order_days,
     lead_time_days |-> lead_time_days, cutoff_time |-> cutoff_time,
     reliability |-> reliability, notes |-> notes]

can_order_today(supplier, date) == Weekday(date) \in supplier.order_days

next_order_date_last_match(supplier, date) ==
    IF can_order_today(supplier, date) THEN date
    ELSE LET later == {i \in 1..7 : can_order_today(supplier, date + i)}
         IN  IF later # {}
             THEN date + CHOOSE i \in later : \A k \in later : i >= k
             ELSE date + 7
next_order_date(supplier, date) ==
    IF can_order_today(supplier, date) THEN date
    ELSE LET later == {i \in 1..7 : can_order_today(supplier, date + i)}
         IN  IF later # {}
             THEN date + CHOOSE i \in later : \A k \in later : i <= k
             ELSE date + 7

delivery_date(supplier, order_date) == order_date + supplier.lead_time_days

\* _init_default_suppliers; reliabilities in percent
default_suppliers ==
    << Supplier("asgeto", "Asgeto", 0..6, 2, "14:00", 95, "Available 7 days a week"),
       Supplier("santefarm", "Santefarm", 0..4, 3, "12:00", 92,
                "Mon-Fri only, longer lead time but often cheaper") >>

\* self.suppliers[supplier.id] = supplier: a known id keeps its place
add_supplier(catalog, supplier) ==
    IF \E i \in DOMAIN catalog : catalog[i].id = supplier.id
    THEN [i \in DOMAIN catalog |->
             IF catalog[i].id = supplier.id THEN supplier ELSE catalog[i]]
    ELSE Append(catalog, supplier)

\* self.suppliers.get(supplier_id)
get_supplier(catalog, supplier_id) ==
    LET found == {i \in DOMAIN catalog : catalog[i].id = supplier_id}
    IN  IF found = {} THEN None ELSE Some(catalog[CHOOSE i \in found : TRUE])

list_suppliers(catalog) == catalog

-----------------------------------------------------------------------------
(* PricingEngine *)

\* a dict as a function on its keys
Put(dict, key, value) ==
    [k \in (DOMAIN dict) \cup {key} |-> IF k = key THEN value ELSE dict[k]]

set_price_fresh_row(table, sku, supplier_id, price) ==
    Put(table, sku, Put(<< >>, supplier_id, price))
set_price(table, sku, supplier_id, price) ==
    LET row == IF sku \in DOMAIN table THEN table[sku] ELSE << >>
    IN  Put(table, sku, Put(row, supplier_id, price))

get_price_any_sku(table, sku, supplier_id) ==
    LET rows == {k \in DOMAIN table : supplier_id \in DOMAIN table[k]}
    IN  IF rows = {} THEN None ELSE Some(table[CHOOSE k \in rows : TRUE][supplier_id])
get_price(table, sku, supplier_id) ==
    IF sku \in DOMAIN table /\ supplier_id \in DOMAIN table[sku]
    THEN Some(table[sku][supplier_id])
    ELSE None

-----------------------------------------------------------------------------
(* RiskAssessor *)

\* risk scores count 1/10
RiskRule(level, score) == [level |-> level, score |-> score]

\* The days d <= 40 whose double product d * 0.4 lies above the double nearest
\* to 4d/10 (3 * 0.4 is 1.2000000000000002): there a days_remaining of exactly
\* 4d/10 compares below the product.  The products d * 0.7 and d * 1.2 never
\* lie above the nearest double for d <= 40, so their ties compare as >=.
FortyPercentRoundsUp == {3, 6, 7, 12, 14, 17, 19, 23, 24, 28, 29, 33, 34, 38, 39}

\* days_remaining >= days_until_delivery * 0.4, on doubles
AtLeastForty(stock, demand, days) ==
    IF 10 * stock = 4 * days * demand
    THEN days \notin FortyPercentRoundsUp
    ELSE 10 * stock > 4 * days * demand

\* the if/elif ladder; days_remaining = stock / demand with demand > 0,
\* safe_days_needed = days * factor / FactorScale
RiskLadderLateMedium(stock, demand, days, factor) ==
    IF stock * FactorScale >= days * factor * demand THEN RiskRule("NONE", 0)
    ELSE IF stock >= days * demand THEN RiskRule("LOW", 3)
    ELSE IF 10 * stock >= 9 * days * demand THEN RiskRule("MEDIUM", 6)
    ELSE IF AtLeastForty(stock, demand, days) THEN RiskRule("HIGH", 8)
    ELSE RiskRule("CRITICAL", 10)
RiskLadderReordered(stock, demand, days, factor) ==
    IF stock * FactorScale >= days * factor * demand THEN RiskRule("NONE", 0)
    ELSE IF AtLeastForty(stock, demand, days) THEN RiskRule("HIGH", 8)
    ELSE IF stock >= days * demand THEN RiskRule("LOW", 3)
    ELSE IF 10 * stock >= 7 * days * demand THEN RiskRule("MEDIUM", 6)
    ELSE RiskRule("CRITICAL", 10)
RiskLadder(stock, demand, days, factor) ==
    IF stock * FactorScale >= days * factor * demand THEN RiskRule("NONE", 0)
    ELSE IF stock >= days * demand THEN RiskRule("LOW", 3)
    ELSE IF 10 * stock >= 7 * days * demand THEN RiskRule("MEDIUM", 6)
    ELSE IF AtLeastForty(stock, demand, days) THEN RiskRule("HIGH", 8)
    ELSE RiskRule("CRITICAL", 10)

RiskMessage(level, days) ==
    CASE level = "NONE" -> "Safe stock level - " \o days \o " days remaining"
      [] level = "LOW" ->
            "Stock OK but below safety margin - " \o days \o " days remaining"
      [] level = "MEDIUM" ->
            "Stock getting low - order soon (" \o days \o " days remaining)"
      [] level = "HIGH" ->
            "Stock low - order immediately (" \o days \o " days remaining)"
      [] OTHER ->
            "CRITICAL - Will stockout before delivery (" \o days \o " days remaining)"

\* the default safety_factor = 1.2 of calculate_risk, in 1/FactorScale
DefaultRiskFactor == 12

calculate_risk(stock, demand, days_until_delivery, factor) ==
    IF demand <= 0
    THEN [level |-> "NONE",
          score |-> 0,
          days_remaining |-> Frac(999, 1),
          message |-> "No demand detected"]
    ELSE LET rule == RiskLadder(stock, demand, days_until_delivery, factor)
         IN  [level |-> rule.level,
              score |-> rule.score,
              days_remaining |-> Frac(stock, demand),
              days_until_delivery |-> days_until_delivery,
              safe_days_needed |-> Frac(days_until_delivery * factor, FactorScale),
              message |-> RiskMessage(rule.level, Format1(stock, demand))]

-----------------------------------------------------------------------------
(* SupplierOptimizer; money in cents *)

\* total_score = risk['score'] * 1000 + total_cost + (1 - reliability) * 100
OptionScoreLightRisk(risk_score, total_cost, reliability) ==
    risk_score * 10 * 100 + total_cost + (100 - reliability) * 100
OptionScore(risk_score, total_cost, reliability) ==
    risk_score * 100 * 100 + total_cost + (100 - reliability) * 100

\* the body of the loop over the suppliers that have a price
Option(supplier, price, stock, demand, quantity, date) ==
    LET order_date == next_order_date(supplier, date)
        delivery == delivery_date(supplier, order_date)
        days_until_delivery == delivery - date
        total_cost == price * quantity
        risk == calculate_risk(stock, demand, days_until_delivery, DefaultRiskFactor)
    IN  [supplier_id |-> supplier.id,
         supplier_name |-> supplier.name,
         order_date |-> order_date,
         delivery_date |-> delivery,
         days_until_order |-> order_date - date,
         days_until_delivery |-> days_until_delivery,
         unit_price |-> price,
         quantity |-> quantity,
         total_cost |-> total_cost,
         risk |-> risk,
         reliability |-> supplier.reliability,
         score |-> OptionScore(risk.score, total_cost, supplier.reliability),
         can_order_today |-> can_order_today(supplier, date),
         notes |-> supplier.notes]

\* list.sort(key=score): ascending and stable
RECURSIVE InsertByScore(_, _)
InsertByScore(sorted, x) ==
    IF sorted = << >> THEN << x >>
    ELSE IF sorted[Len(sorted)].score <= x.score THEN Append(sorted, x)
    ELSE Append(InsertByScore(SubSeq(sorted, 1, Len(sorted) - 1), x),
                sorted[Len(sorted)])

RECURSIVE SortPrefix(_, _)
SortPrefix(options, n) ==
    IF n = 0 THEN << >> ELSE InsertByScore(SortPrefix(options, n - 1), options[n])

Unsorted(options) == options
SortByScore(options) == SortPrefix(options, Len(options))

JoinReasons(reasons) ==
    IF Len(reasons) = 1 THEN reasons[1]
    ELSE IF Len(reasons) = 2 THEN reasons[1] \o "; " \o reasons[2]
    ELSE reasons[1] \o "; " \o reasons[2] \o "; " \o reasons[3]

generate_recommendation_reason(option) ==
    LET level == option.risk.level
        left == Format1(option.risk.days_remaining.num, option.risk.days_remaining.den)
        days == ToString(option.days_until_delivery)
        stock_part ==
            IF level \in {"CRITICAL", "HIGH"}
            THEN << "Stock level critical (" \o left \o " days left)" >>
                     \o (IF option.can_order_today
                         THEN << "Can order immediately" >> ELSE << >>)
            ELSE IF level = "MEDIUM"
            THEN << "Stock getting low - order soon recommended" >>
            ELSE IF level = "LOW"
            THEN << "Stock adequate but approaching reorder point" >>
            ELSE << "Stock levels good" >>
        timing_part ==
            IF option.days_until_delivery <= 2
            THEN << "Fast delivery (" \o days \o " days)" >>
            ELSE IF option.days_until_delivery >= 5
            THEN << "Longer wait time (" \o days \o " days)" >>
            ELSE << >>
    IN  JoinReasons(stock_part \o timing_part)

\* options[0]['recommended'] = True; options[0]['reason'] = ...
TagEveryOption(options) ==
    [i \in DOMAIN options |->
        options[i] @@ [recommended |-> TRUE,
                       reason |-> generate_recommendation_reason(options[i])]]
TagFirstOption(options) ==
    IF options = << >> THEN options
    ELSE [options EXCEPT ![1] =
             options[1] @@ [recommended |-> TRUE,
                            reason |-> generate_recommendation_reason(options[1])]]

\* the suppliers considered: the whole catalog, or the known ids of
\* available_suppliers in the order given
Candidates(catalog, available_suppliers) ==
    IF available_suppliers = None THEN list_suppliers(catalog)
    ELSE LET asked == available_suppliers[1]
             found == [i \in DOMAIN asked |-> get_supplier(catalog, asked[i])]
             known == SelectSeq(found, LAMBDA s : s # None)
         IN  [i \in DOMAIN known |-> known[i][1]]

find_optimal_supplier(catalog, table, sku, stock, demand, quantity, date, available_suppliers) ==
    LET candidates == Candidates(catalog, available_suppliers)
        priced == SelectSeq(candidates, LAMBDA s : get_price(table, sku, s.id) # None)
        options == [i \in DOMAIN priced |->
                       Option(priced[i], get_price(table, sku, priced[i].id)[1],
                              stock, demand, quantity, date)]
    IN  TagFirstOption(SortByScore(options))

\* max(options, key=total_cost)['total_cost']
MostExpensive(options) ==
    LET costs == {options[i].total_cost : i \in DOMAIN options}
    IN  CHOOSE c \in costs : \A d \in costs : c >= d

\* option['savings_vs_max'] and option['savings_percent'] of every option
WithSavings(options, most_expensive) ==
    [i \in DOMAIN options |->
        LET savings == most_expensive - options[i].total_cost
        IN  options[i] @@
                [savings_vs_max |-> savings,
                 savings_percent |->
                     IF most_expensive > 0
                     THEN Frac(savings * 100, most_expensive)
                     ELSE Frac(0, 1)]]

\* the result of a comparison that has options
Comparison(compared, date) ==
    LET best_option == compared[1]
    IN  [recommended |-> best_option,
         all_options |-> compared,
         max_savings |-> best_option.savings_vs_max,
         max_savings_percent |-> best_option.savings_percent,
         comparison_date |-> date]

CompareOptions(options, date) ==
    IF options = << >>
    THEN [error |-> "No suppliers available", all_options |-> << >>]
    ELSE Comparison(WithSavings(options, MostExpensive(options)), date)

\* compare_suppliers: the options of find_optimal_supplier over the whole
\* catalog, each with its savings against the most expensive one
compare_suppliers(catalog, table, sku, stock, demand, quantity, date) ==
    CompareOptions(find_optimal_supplier(catalog, table, sku, stock, demand,
                                         quantity, date, None),
                   date)

-----------------------------------------------------------------------------
(* forecast_engine: statistics of a series *)

\* A series is a sequence of whole numbers of units sold.  With n = len, the
\* model keeps n * sum, n^2 * variance, ... as integers and compares
\* quotients and square roots by cross-multiplication and squaring.
\* n * np.mean(arr)
RECURSIVE Sum(_)
Sum(data) ==
    IF data = << >> THEN 0 ELSE data[1] + Sum(Tail(data))

SumOfSquares(data) == Sum([i \in DOMAIN data |-> data[i] * data[i]])

\* n^2 * np.std(arr)^2: the population variance, without Bessel's correction
VarN(data) == Len(data) * SumOfSquares(data) - Sum(data) * Sum(data)

Abs(x) == IF x < 0 THEN -x ELSE x

RECURSIVE Gcd(_, _)
Gcd(a, b) == IF b = 0 THEN a ELSE Gcd(b, a % b)

\* the fraction n / m, m > 0, in lowest terms
Reduced(n, m) == Frac(n \div Gcd(Abs(n), m), m \div Gcd(Abs(n), m))

\* the ascending sequence of a set of numbers
RECURSIVE Ascending(_)
Ascending(S) ==
    IF S = {} THEN << >>
    ELSE LET least == CHOOSE x \in S : \A y \in S : x <= y
         IN  <<least>> \o Ascending(S \ {least})

\* np.sort as np.percentile applies it
RECURSIVE Sorted(_)
Sorted(data) ==
    IF data = << >> THEN << >>
    ELSE LET least == CHOOSE i \in DOMAIN data : \A j \in DOMAIN data : data[i] <= data[j]
         IN  <<data[least]>> \o
             Sorted([k \in 1..(Len(data) - 1) |-> IF k < least THEN data[k] ELSE data[k + 1]])

-----------------------------------------------------------------------------
(* OutlierDetector *)

\* detect_zscore(threshold=3.0), detect_iqr(multiplier=1.5) as 3/2
ZScoreThreshold == 3
IqrMultiplierTwice == 3

\* indices are those of the Python list: the first element has index 0
detect_zscore_threshold_two(data) ==
    LET n == Len(data)
    IN  IF n < 3 \/ VarN(data) = 0 THEN << >>
        ELSE Ascending({i - 1 : i \in {k \in DOMAIN data :
                 (n * data[k] - Sum(data)) * (n * data[k] - Sum(data))
                     > 2 * 2 * VarN(data)}})
detect_zscore(data) ==
    LET n == Len(data)
    IN  IF n < 3 \/ VarN(data) = 0 THEN << >>
        ELSE Ascending({i - 1 : i \in {k \in DOMAIN data :
                 (n * data[k] - Sum(data)) * (n * data[k] - Sum(data))
                     > ZScoreThreshold * ZScoreThreshold * VarN(data)}})

\* 4 * np.percentile(arr, quarter * 25), linear interpolation between the
\* order statistics around position quarter * (n - 1) / 4
Percentile4(data, quarter) ==
    LET sorted == Sorted(data)
        position == quarter * (Len(data) - 1)
        below == position \div 4
        part == position % 4
    IN  IF part = 0 THEN 4 * sorted[below + 1]
        ELSE 4 * sorted[below + 1] + part * (sorted[below + 2] - sorted[below + 1])

detect_iqr(data) ==
    IF Len(data) < 4 THEN << >>
    ELSE LET q1 == Percentile4(data, 1)
             q3 == Percentile4(data, 3)
             iqr == q3 - q1
             \* 8 * lower_bound and 8 * upper_bound
             lower_bound == 2 * q1 - IqrMultiplierTwice * iqr
             upper_bound == 2 * q3 + IqrMultiplierTwice * iqr
         IN  Ascending({i - 1 : i \in {k \in DOMAIN data :
                 8 * data[k] < lower_bound \/ 8 * data[k] > upper_bound}})

\* [val for i, val in enumerate(data) if i not in outlier_indices]
Without(data, outlier_indices) ==
    LET flagged == {outlier_indices[k] : k \in DOMAIN outlier_indices}
        kept == Ascending({i \in DOMAIN data : (i - 1) \notin flagged})
    IN  [k \in DOMAIN kept |-> data[kept[k]]]

\* the tail of remove_outliers: the cleaned series, or the original one when
\* fewer than half of the points are left
KeepOrDiscardAlways(data, outlier_indices) ==
    LET cleaned_data == Without(data, outlier_indices)
    IN  IF Len(cleaned_data) < Len(data)
        THEN [cleaned_data |-> data, outlier_indices |-> << >>]
        ELSE [cleaned_data |-> cleaned_data, outlier_indices |-> outlier_indices]
KeepOrDiscard(data, outlier_indices) ==
    LET cleaned_data == Without(data, outlier_indices)
    IN  IF 2 * Len(cleaned_data) < Len(data)
        THEN [cleaned_data |-> data, outlier_indices |-> << >>]
        ELSE [cleaned_data |-> cleaned_data, outlier_indices |-> outlier_indices]

remove_outliers(data, method) ==
    IF Len(data) < 3 THEN [cleaned_data |-> data, outlier_indices |-> << >>]
    ELSE IF method = "zscore" THEN KeepOrDiscard(data, detect_zscore(data))
    ELSE IF method = "iqr" THEN KeepOrDiscard(data, detect_iqr(data))
    ELSE [cleaned_data |-> data, outlier_indices |-> << >>]

-----------------------------------------------------------------------------
(* TrendAnalyzer *)

TrendPeriod == 7

\* np.polyfit(x, y, 1)[0] = SlopeNum / SlopeDen for x = 0 .. n-1
SlopeNum(data) ==
    LET n == Len(data)
    IN  n * Sum([i \in DOMAIN data |-> (i - 1) * data[i]])
            - Sum([i \in DOMAIN data |-> i - 1]) * Sum(data)
SlopeDen(data) ==
    LET n == Len(data)
    IN  n * Sum([i \in DOMAIN data |-> (i - 1) * (i - 1)])
            - Sum([i \in DOMAIN data |-> i - 1]) * Sum([i \in DOMAIN data |-> i - 1])

\* relative_slope = slope / mean_value if mean_value > 0 else 0
RelativeSlope(data) ==
    IF Sum(data) > 0
    THEN Frac(SlopeNum(data) * Len(data), SlopeDen(data) * Sum(data))
    ELSE Frac(0, 1)

\* r_squared = 1 - ss_res / ss_tot if ss_tot > 0 else 0; for the fitted line
\* this is slope_num^2 / (slope_den * n^2 var)
RSquared(data) ==
    IF VarN(data) > 0
    THEN LET slope == Reduced(SlopeNum(data), SlopeDen(data))
             other == Reduced(SlopeNum(data), VarN(data))
         IN  Reduced(slope.num * other.num, slope.den * other.den)
    ELSE Frac(0, 1)

\* the thresholds 0.05 on relative_slope, as 1/20
DirectionSwapped(relative_slope) ==
    IF 20 * relative_slope.num > relative_slope.den THEN "DECLINING"
    ELSE IF 20 * relative_slope.num < -relative_slope.den THEN "GROWING"
    ELSE "STEADY"
Direction(relative_slope) ==
    IF 20 * relative_slope.num > relative_slope.den THEN "GROWING"
    ELSE IF 20 * relative_slope.num < -relative_slope.den THEN "DECLINING"
    ELSE "STEADY"

calculate_trend(data) ==
    IF Len(data) < TrendPeriod
    THEN [direction |-> "INSUFFICIENT_DATA",
          slope |-> Frac(0, 1),
          strength |-> Frac(0, 1),
          r_squared |-> Frac(0, 1)]
    ELSE LET relative_slope == RelativeSlope(data)
         IN  [direction |-> Direction(relative_slope),
              slope |-> Frac(SlopeNum(data), SlopeDen(data)),
              relative_slope |-> relative_slope,
              strength |-> Frac(Abs(relative_slope.num), relative_slope.den),
              r_squared |-> RSquared(data),
              \* r_squared * 100
              confidence |-> Frac(100 * RSquared(data).num, RSquared(data).den)]

\* detect_day_of_week_pattern(data, dates) for dates = None, the only call
\* of the service (main.py calls analyze(history) without dates)
detect_day_of_week_pattern(data, dates) ==
    CASE dates = None -> [has_pattern |-> FALSE, pattern |-> << >>]

-----------------------------------------------------------------------------
(* SeasonalForecaster: the statsmodels library is the environment *)

\* What the library does in one call of analyze:
\*   available     - STATSMODELS_AVAILABLE, whether the import succeeded
\*   decomposition - None when seasonal_decompose raises, else
\*                   std(seasonal) / std(series) of its result
\*   smoothing     - None when ExponentialSmoothing raises, else the values
\*                   of fitted_model.forecast(steps=7)
SeasonalPeriod == 7
ForecastPeriods == 7

decompose(data, period, library) ==
    IF ~library.available \/ Len(data) < period * 2 THEN None
    ELSE IF library.decomposition = None THEN None
    ELSE Some([seasonal_strength |->
                  IF VarN(data) > 0 THEN library.decomposition[1] ELSE Frac(0, 1)])

forecast_holt_winters(data, periods, seasonal_periods, library) ==
    IF ~library.available \/ Len(data) < seasonal_periods * 2 THEN None
    ELSE IF library.smoothing = None THEN None
    ELSE Some([forecast |-> library.smoothing[1], method |-> "holt_winters"])

-----------------------------------------------------------------------------
(* DemandClassifier *)

ClassifyMinimum == 7

\* cv = std / mean if mean > 0 else 0, compared with the fraction a / b:
\* (std / mean)^2 against (a / b)^2
CvAbove(data, a, b) ==
    Sum(data) > 0 /\ b * b * VarN(data) > a * a * Sum(data) * Sum(data)
CvBelow(data, a, b) ==
    Sum(data) <= 0 \/ b * b * VarN(data) < a * a * Sum(data) * Sum(data)

\* trend['strength'] > 0.1
StrongTrend(trend) == 10 * trend.strength.num > trend.strength.den

\* the if/elif ladder; pattern and confidence (trend['confidence'] / 100 is
\* r_squared)
ClassifyRuleTrendFirst(data, trend, library) ==
    IF trend.direction = "GROWING" /\ StrongTrend(trend)
    THEN [pattern |-> "GROWING", confidence |-> trend.r_squared]
    ELSE IF trend.direction = "DECLINING" /\ StrongTrend(trend)
    THEN [pattern |-> "DECLINING", confidence |-> trend.r_squared]
    ELSE IF CvAbove(data, 5, 10)
    THEN [pattern |-> "ERRATIC", confidence |-> Frac(8, 10)]
    ELSE IF CvBelow(data, 2, 10)
    THEN [pattern |-> "STEADY", confidence |-> Frac(9, 10)]
    ELSE LET decomp == decompose(data, SeasonalPeriod, library)
         IN  IF decomp # None /\ 10 * decomp[1].seasonal_strength.num
                                    > 3 * decomp[1].seasonal_strength.den
             THEN [pattern |-> "SEASONAL", confidence |-> Frac(85, 100)]
             ELSE [pattern |-> "STEADY", confidence |-> Frac(7, 10)]
ClassifyRule(data, trend, library) ==
    IF CvAbove(data, 5, 10)
    THEN [pattern |-> "ERRATIC", confidence |-> Frac(8, 10)]
    ELSE IF trend.direction = "GROWING" /\ StrongTrend(trend)
    THEN [pattern |-> "GROWING", confidence |-> trend.r_squared]
    ELSE IF trend.direction = "DECLINING" /\ StrongTrend(trend)
    THEN [pattern |-> "DECLINING", confidence |-> trend.r_squared]
    ELSE IF CvBelow(data, 2, 10)
    THEN [pattern |-> "STEADY", confidence |-> Frac(9, 10)]
    ELSE LET decomp == decompose(data, SeasonalPeriod, library)
         IN  IF decomp # None /\ 10 * decomp[1].seasonal_strength.num
                                    > 3 * decomp[1].seasonal_strength.den
             THEN [pattern |-> "SEASONAL", confidence |-> Frac(85, 100)]
             ELSE [pattern |-> "STEADY", confidence |-> Frac(7, 10)]

classify(data, library) ==
    IF Len(data) < ClassifyMinimum
    THEN [pattern |-> "INSUFFICIENT_DATA",
          confidence |-> Frac(0, 1),
          characteristics |-> << >>]
    ELSE LET trend == calculate_trend(data)
             rule == ClassifyRule(data, trend, library)
         IN  [pattern |-> rule.pattern,
              confidence |-> rule.confidence,
              characteristics |->
                  [mean |-> Frac(Sum(data), Len(data)),
                   \* std^2 and cv^2
                   variance |-> Frac(VarN(data), Len(data) * Len(data)),
                   cv_squared |-> IF Sum(data) > 0
                                  THEN Frac(VarN(data), Sum(data) * Sum(data))
                                  ELSE Frac(0, 1),
                   trend_direction |-> trend.direction,
                   trend_strength |-> trend.strength]]

-----------------------------------------------------------------------------
(* ConfidenceCalculator *)

\* np.std(arr, ddof=1), std / np.sqrt(n): a square root kept exact, as the
\* fraction under the root
Root(f) == [squared |-> f]

\* stats.t.ppf((1 + confidence_level) / 2, n - 1): the quantile of scipy,
\* kept as its arguments (confidence level in percent)
TQuantile(confidence_level, degrees_of_freedom) ==
    [confidence |-> confidence_level, degrees_of_freedom |-> degrees_of_freedom]

\* calculate_interval(data, 0.95): the mean and the sample standard
\* deviation; margin = t_value * (std / sqrt(n)) is kept as its two factors,
\* lower = max(0, mean - margin) and upper = mean + margin as their terms.
calculate_interval(data, confidence_level) ==
    IF Len(data) < 2
    THEN [mean |-> Frac(0, 1),
          std |-> Frac(0, 1),
          lower |-> Frac(0, 1),
          upper |-> Frac(0, 1),
          confidence |-> confidence_level]
    ELSE LET n == Len(data)
             mean == Frac(Sum(data), n)
             margin == [t_value |-> TQuantile(confidence_level, n - 1),
                        standard_error |-> Root(Frac(VarN(data), n * n * (n - 1)))]
         IN  [mean |-> mean,
              std |-> Root(Frac(VarN(data), n * (n - 1))),
              lower |-> [at_least |-> 0, mean |-> mean, minus |-> margin],
              upper |-> [mean |-> mean, plus |-> margin],
              margin |-> margin,
              confidence |-> confidence_level]

-----------------------------------------------------------------------------
(* ForecastEngine *)

AnalyzeMinimum == 3
SmoothingMinimum == 14
Milli == 10 ^ 3

\* 10^6 * sum of the terms k .. 12 of the series of exp(-a / b), 0 <= a <= b
RECURSIVE ExpSeries(_, _, _, _)
ExpSeries(term, k, a, b) ==
    IF k > 12 THEN 0
    ELSE LET next == (term * a) \div (b * k)
         IN  (IF k % 2 = 0 THEN next ELSE -next) + ExpSeries(next, k + 1, a, b)

\* np.exp(np.linspace(-1, 0, n))[i - 1] to three decimals, in 1/Milli
Weight(i, n) ==
    IF n = 1 THEN 368
    ELSE (10 ^ 6 + ExpSeries(10 ^ 6, 1, n - i, n - 1) + 500) \div Milli

\* np.average(data, weights=weights)
WeightedAverage(data) ==
    LET n == Len(data)
    IN  Frac(Sum([i \in DOMAIN data |-> Weight(i, n) * data[i]]),
             Sum([i \in DOMAIN data |-> Weight(i, n)]))

\* 1.0 + trend['relative_slope'] * 0.5 for the two trend patterns
Adjustment(classification, trend) ==
    IF classification.pattern \in {"GROWING", "DECLINING"}
    THEN Frac(2 * trend.relative_slope.den + trend.relative_slope.num,
              2 * trend.relative_slope.den)
    ELSE Frac(1, 1)

Repeat(x, n) == [i \in 1..n |-> x]

\* the weighted-moving-average branch; forecast_value = weighted_avg *
\* adjustment is kept as its two factors
WeightedMovingAverageUnadjusted(data, classification, trend) ==
    LET forecast_value == [weighted_avg |-> WeightedAverage(data),
                           adjustment |-> Adjustment(classification, trend)]
    IN  [method |-> "weighted_moving_average",
         next_7_days |-> Repeat(forecast_value, ForecastPeriods),
         daily_average |-> [forecast_value EXCEPT !.adjustment = Frac(1, 1)]]
WeightedMovingAverage(data, classification, trend) ==
    LET forecast_value == [weighted_avg |-> WeightedAverage(data),
                           adjustment |-> Adjustment(classification, trend)]
    IN  [method |-> "weighted_moving_average",
         next_7_days |-> Repeat(forecast_value, ForecastPeriods),
         daily_average |-> forecast_value]

HoltWinters(data, library) ==
    IF Len(data) >= SmoothingMinimum
    THEN forecast_holt_winters(data, ForecastPeriods, SeasonalPeriod, library)
    ELSE None

generate_forecast(data, classification, trend, library) ==
    LET hw_forecast == HoltWinters(data, library)
    IN  IF hw_forecast # None
        THEN [method |-> "holt_winters",
              next_7_days |-> hw_forecast[1].forecast,
              daily_average |-> Frac(Sum(hw_forecast[1].forecast),
                                     Len(hw_forecast[1].forecast))]
        ELSE WeightedMovingAverage(data, classification, trend)

\* suggested_safety_factor in 1/FactorScale; int((1.4 - 1) * 100) is 39
generate_recommendation(classification, trend, confidence) ==
    LET pattern == classification.pattern
        factor == CASE pattern = "STEADY" -> 12
                    [] pattern = "GROWING" -> 14
                    [] pattern = "DECLINING" -> 10
                    [] pattern = "SEASONAL" -> 15
                    [] pattern = "ERRATIC" -> 18
                    [] OTHER -> 13
        message == CASE pattern = "STEADY" -> "Demand is stable and predictable"
                     [] pattern = "GROWING" ->
                            "Demand is growing - consider ordering 39% more"
                     [] pattern = "DECLINING" ->
                            "Demand is declining - reduce order quantities"
                     [] pattern = "SEASONAL" ->
                            "Strong seasonal pattern detected - adjust for peaks"
                     [] pattern = "ERRATIC" ->
                            "High variability - maintain higher safety stock"
                     [] OTHER -> "Insufficient data - using conservative estimates"
    IN  [message |-> message,
         pattern |-> pattern,
         confidence |-> classification.confidence,
         suggested_safety_factor |-> factor,
         expected_daily_demand |-> confidence.mean,
         safe_daily_demand |-> Frac(confidence.mean.num * factor,
                                    confidence.mean.den * FactorScale)]

\* `len(sales_data) < 3`
TooShortOnlyEmpty(sales_data) == Len(sales_data) = 0
TooShort(sales_data) == Len(sales_data) < AnalyzeMinimum

analyze(sales_data, dates, library) ==
    IF TooShort(sales_data)
    THEN [error |-> "Insufficient data",
          min_required |-> AnalyzeMinimum,
          received |-> Len(sales_data)]
    ELSE LET removal == remove_outliers(sales_data, "zscore")
             cleaned_data == removal.cleaned_data
             classification == classify(cleaned_data, library)
             trend == calculate_trend(cleaned_data)
             confidence == calculate_interval(cleaned_data, 95)
         IN  [original_data_points |-> Len(sales_data),
              cleaned_data_points |-> Len(cleaned_data),
              outliers_removed |-> Len(removal.outlier_indices),
              outlier_indices |-> removal.outlier_indices,
              classification |-> classification,
              trend |-> trend,
              day_of_week_pattern |-> detect_day_of_week_pattern(cleaned_data, dates),
              seasonal_decomposition |->
                  IF Len(cleaned_data) >= SmoothingMinimum
                  THEN decompose(cleaned_data, SeasonalPeriod, library)
                  ELSE None,
              confidence_interval |-> confidence,
              forecast |-> generate_forecast(cleaned_data, classification, trend, library),
              recommendation |-> generate_recommendation(classification, trend, confidence)]

-----------------------------------------------------------------------------
(* main.py: the /v3 handlers.  The engines are module-level objects: the
   price table `prices` (pricing_engine) and the catalog (supplier_schedule)
   live as long as the process.  A request is a record, a response is
   [status |-> 200, body |-> ...] or, when the handler's `except Exception`
   catches a failure, [status |-> 500, detail |-> ...].  The generatedAt
   timestamp of a response is left out. *)

Ok(body) == [status |-> 200, body |-> body]
HttpError(detail) == [status |-> 500, detail |-> detail]

\* _determine_action
determine_action(urgency) ==
    IF urgency \in {"CRITICAL", "URGENT"} THEN "ORDER_TODAY"
    ELSE IF urgency = "LOW" THEN "ORDER_SOON"
    ELSE IF urgency = "GOOD" THEN "MONITOR"
    ELSE "REDUCE_ORDERS"

\* for supplier_id, price in supplier_prices.items():
\*     pricing_engine.set_price(sku, supplier_id, price)
RECURSIVE SetPrices(_, _, _)
SetPrices(table, sku, supplier_prices) ==
    IF supplier_prices = << >> THEN table
    ELSE SetPrices(set_price(table, sku, Head(supplier_prices).supplier_id,
                             Head(supplier_prices).price),
                   sku, Tail(supplier_prices))

\* the return statement of /v3/supplier-comparison; result['recommended']
\* of an empty comparison is a KeyError
ComparisonResponse(req, comparison) ==
    IF "recommended" \in DOMAIN comparison
    THEN Ok([sku |-> req.sku,
             recommended |-> comparison.recommended,
             allOptions |-> comparison.all_options,
             maxSavings |-> comparison.max_savings,
             maxSavingsPercent |-> comparison.max_savings_percent])
    ELSE HttpError("'recommended'")

\* the handler with the price table the request's prices were written to
ComparePriced(pricing, catalog, date, req) ==
    [pricing |-> pricing,
     response |->
         ComparisonResponse(req,
             compare_suppliers(catalog, pricing, req.sku, req.currentStock,
                               req.dailyDemand, req.orderQuantity, date))]

\* /v3/supplier-comparison: the table after the request and the response
supplier_comparison(table, catalog, date, req) ==
    ComparePriced(SetPrices(table, req.sku, req.supplierPrices), catalog, date, req)

Actions == {"ORDER_TODAY", "ORDER_SOON", "MONITOR", "REDUCE_ORDERS"}

\* int(daily_demand * 7) for daily_demand >= 0 in 1/Scale
WeekOfDemand(demand) == (demand * 7) \div Scale

\* .get(key, default) of a dict, `key in dict and dict[key]` of a dict of dicts
Get(dict, key, default) == IF key \in DOMAIN dict THEN dict[key] ELSE default
Priced(dict, key) == key \in DOMAIN dict /\ dict[key] # << >>

\* action_list[action].append({...}) with the coverage and the price table
\* of the product
ListProduct(served, catalog, date, product, coverage, pricing) ==
    LET entry == [sku |-> product.sku,
                  currentStock |-> product.currentStock,
                  daysRemaining |-> coverage.days_remaining,
                  urgency |-> coverage.status,
                  message |-> coverage.message,
                  supplierOptions |->
                      IF Priced(product, "supplierPrices")
                      THEN compare_suppliers(catalog, pricing, product.sku,
                                             product.currentStock, product.dailyDemand,
                                             WeekOfDemand(product.dailyDemand),
                                             date).all_options
                      ELSE << >>]
    IN  [pricing |-> pricing,
         action_list |->
             [served.action_list EXCEPT ![determine_action(coverage.status)] =
                 Append(@, entry)]]

\* the body of the loop of /v3/daily-action-list
ServeProduct(served, catalog, date, product) ==
    ListProduct(served, catalog, date, product,
                calculate_current_coverage(product.currentStock, product.dailyDemand),
                IF Priced(product, "supplierPrices")
                THEN SetPrices(served.pricing, product.sku, product.supplierPrices)
                ELSE served.pricing)

\* for product in req.products
RECURSIVE ServeProducts(_, _, _, _)
ServeProducts(served, catalog, date, products) ==
    IF products = << >> THEN served
    ELSE ServeProducts(ServeProduct(served, catalog, date, Head(products)),
                       catalog, date, Tail(products))

\* the return statement of /v3/daily-action-list
ActionListResponse(req, action_list) ==
    Ok([storeId |-> req.storeId,
        actionList |-> action_list,
        summary |-> [orderToday |-> Len(action_list["ORDER_TODAY"]),
                     orderSoon |-> Len(action_list["ORDER_SOON"]),
                     monitor |-> Len(action_list["MONITOR"]),
                     reduceOrders |-> Len(action_list["REDUCE_ORDERS"])]])

ListServed(req, served) ==
    [pricing |-> served.pricing,
     response |-> ActionListResponse(req, served.action_list)]

daily_action_list(table, catalog, date, req) ==
    ListServed(req, ServeProducts([pricing |-> table,
                                   action_list |-> [a \in Actions |-> << >>]],
                                  catalog, date, req.products))

\* a demand kept as a fraction, in 1/Scale (the histories of the requests
\* give whole numbers of 1/Scale)
DemandUnits(f) == (Reduced(f.num, f.den).num * Scale) \div Reduced(f.num, f.den).den

\* forecast_result['forecast']['daily_average'] as one fraction
DailyAverage(forecast) ==
    IF forecast.method = "holt_winters" THEN forecast.daily_average
    ELSE LET average == forecast.daily_average.weighted_avg
             adjustment == forecast.daily_average.adjustment
             reduced == Reduced(average.num, average.den)
         IN  Frac(reduced.num * adjustment.num, reduced.den * adjustment.den)

\* Step 1 with includeAnalysis: what the handler takes from the analysis
Analysed(forecast_result) ==
    [pattern |-> forecast_result.classification.pattern,
     confidence |-> forecast_result.classification.confidence,
     trend |-> forecast_result.trend,
     forecasted_demand |-> DemandUnits(DailyAverage(forecast_result.forecast))]

\* Step 1 without it: the simple average
SimpleAverage(history) ==
    [pattern |-> "STEADY",
     confidence |-> Frac(7, 10),
     trend |-> [direction |-> "STEADY", slope |-> Frac(0, 1)],
     forecasted_demand |-> DemandUnits(Frac(Sum(history), Len(history)))]

\* recommendations.append({...})
Recommendation(sku, stock, analysis, current_coverage, scenarios, recommended_scenario, supplier_options) ==
    [sku |-> sku,
     currentStock |-> stock,
     daysRemaining |-> current_coverage.days_remaining,
     urgency |-> current_coverage.status,
     pattern |-> analysis.pattern,
     patternConfidence |-> analysis.confidence,
     trend |-> analysis.trend,
     forecastedDailyDemand |-> Round2(analysis.forecasted_demand, Scale),
     recommendedOrderQty |-> recommended_scenario.order_quantity,
     recommendedCoverageDays |-> recommended_scenario.recommended_coverage_days,
     coverageScenarios |-> scenarios.scenarios,
     supplierOptions |-> supplier_options,
     recommendation |-> [message |-> current_coverage.message,
                         action |-> determine_action(current_coverage.status),
                         reason |-> recommended_scenario.reason]]

\* Step 5 and the recommendation, with the results of Steps 2 to 4 and the
\* price table of the sku
RecommendPriced(served, catalog, date, req, sku, stock, analysis, current_coverage, scenarios, recommended_scenario, pricing) ==
    [pricing |-> pricing,
     recommendations |->
         Append(served.recommendations,
                Recommendation(sku, stock, analysis, current_coverage, scenarios,
                               recommended_scenario,
                               IF Priced(req.supplierPrices, sku)
                               THEN compare_suppliers(catalog, pricing, sku, stock,
                                        analysis.forecasted_demand,
                                        recommended_scenario.order_quantity,
                                        date).all_options
                               ELSE << >>))]

\* Steps 2 to 5 for one sku with its stock and the result of Step 1
Recommend(served, catalog, date, req, sku, stock, analysis) ==
    RecommendPriced(served, catalog, date, req, sku, stock, analysis,
        calculate_current_coverage(stock, analysis.forecasted_demand),
        generate_scenarios(stock, analysis.forecasted_demand, <<1, 7, 14, 30>>,
                           TRUE, DefaultSafetyFactor),
        recommend_scenario(stock, analysis.forecasted_demand, analysis.pattern, 7),
        IF Priced(req.supplierPrices, sku)
        THEN SetPrices(served.pricing, sku, req.supplierPrices[sku])
        ELSE served.pricing)

\* the body of the loop of /v3/recommendations; history is
\* sales_history.get(sku, []) of what fetch_sales_history returned
ServeSku(served, catalog, date, req, library, sku, history) ==
    IF Len(history) < AnalyzeMinimum THEN served
    ELSE Recommend(served, catalog, date, req, sku, Get(req.currentStock, sku, 0),
                   IF req.includeAnalysis
                   THEN Analysed(analyze(history, None, library))
                   ELSE SimpleAverage(history))

\* for sku in req.skus
RECURSIVE ServeSkus(_, _, _, _, _, _, _)
ServeSkus(served, catalog, date, req, sales_history, library, skus) ==
    IF skus = << >> THEN served
    ELSE ServeSkus(ServeSku(served, catalog, date, req, library, Head(skus),
                            Get(sales_history, Head(skus), << >>)),
                   catalog, date, req, sales_history, library, Tail(skus))

\* sum(1 for r in recommendations if r['urgency'] in urgencies)
CountUrgency(recommendations, urgencies) ==
    Cardinality({i \in DOMAIN recommendations : recommendations[i].urgency \in urgencies})

\* the summary and the return statement of /v3/recommendations
RecommendationResponse(req, recommendations) ==
    Ok([recommendations |-> recommendations,
        summary |->
            [totalProducts |-> Len(recommendations),
             criticalProducts |-> CountUrgency(recommendations, {"CRITICAL", "URGENT"}),
             lowStockProducts |-> CountUrgency(recommendations, {"LOW"}),
             goodStockProducts |-> CountUrgency(recommendations, {"GOOD", "OVERSTOCKED"}),
             analysisPeriodDays |-> req.analysisPeriodDays]])

RecommendationsServed(req, served) ==
    [pricing |-> served.pricing,
     response |-> RecommendationResponse(req, served.recommendations)]

generate_v3_recommendations(table, catalog, date, req, sales_history, library) ==
    RecommendationsServed(req,
        ServeSkus([pricing |-> table, recommendations |-> << >>],
                  catalog, date, req, sales_history, library, req.skus))

-----------------------------------------------------------------------------
(* Inputs of the coverage calls *)

MaxTargetDays == 8
MaxPeriods == 2

\* stock levels in 1/Scale: 0, 36.4996, 36.5, 50, 365 units, 2.996, 7 and 30
\* units and a grid of 2.5 units
Stocks == {0, 364996, 365000, 500000, 3650000}
              \cup {k * 25000 : k \in 1..4} \cup {29960, 70000, 300000}

\* demands in 1/Scale: negative, zero, 0.0005, 0.001, 0.0011, 0.1, 1, 2.5, 8
Demands == {-10000, 0, 5, 10, 11, 1000, 10000, 25000, 80000}

\* safety factors in 1/FactorScale: -1.0, 0, 1.0, 1.2
Factors == {-10, 0, 10, 12}

TargetDays == (-1) .. MaxTargetDays

RECURSIVE SeqsUpTo(_, _)
SeqsUpTo(S, n) ==
    IF n = 0 THEN {<< >>}
    ELSE LET shorter == SeqsUpTo(S, n - 1)
         IN  shorter \cup {Append(s, x) : s \in shorter, x \in S}

\* custom_periods: the empty list (standard periods) and lists of a day, a
\* week and the longest target
PeriodLists == SeqsUpTo({1, 7, MaxTargetDays}, MaxPeriods)

Args == <<current_stock, daily_demand, include_safety_stock, safety_factor>>
Env == <<order_quantity, from_date, suppliers, prices>>

InitCoverage ==
    /\ current_stock \in Stocks
    /\ daily_demand \in Demands
    /\ include_safety_stock \in BOOLEAN
    /\ safety_factor \in Factors
    /\ order_quantity = 0
    /\ from_date = 0
    /\ suppliers = default_suppliers
    /\ prices = << >>
    /\ op = "none"
    /\ call = None
    /\ result = None

CalculateCurrentCoverage ==
    /\ op' = "calculate_current_coverage"
    /\ call' = None
    /\ result' = calculate_current_coverage(current_stock, daily_demand)
    /\ UNCHANGED <<Args, Env>>

CalculateOrderQuantity ==
    \E target \in TargetDays :
        /\ op' = "calculate_order_quantity"
        /\ call' = [target_coverage_days |-> target]
        /\ result' = calculate_order_quantity(current_stock, daily_demand, target,
                                              include_safety_stock, safety_factor)
        /\ UNCHANGED <<Args, Env>>

GenerateScenarios ==
    \E custom_periods \in PeriodLists :
        /\ op' = "generate_scenarios"
        /\ call' = [custom_periods |-> custom_periods]
        /\ result' = generate_scenarios(current_stock, daily_demand, custom_periods,
                                        include_safety_stock, safety_factor)
        /\ UNCHANGED <<Args, Env>>

NextCoverage ==
    \/ CalculateCurrentCoverage
    \/ CalculateOrderQuantity
    \/ GenerateScenarios

SpecCoverage == InitCoverage /\ [][NextCoverage]_vars

-----------------------------------------------------------------------------
(* Calls of CoverageCalculator.recommend_scenario *)

MaxRecommendLead == 16

\* the labels of DemandClassifier.classify and a label it never gives
DemandPatterns ==
    {"STEADY", "GROWING", "DECLINING", "SEASONAL", "ERRATIC",
     "INSUFFICIENT_DATA", "UNKNOWN"}

\* stock in 1/Scale: none, 20.5, 50, 400 units; demand: none, 0.001, 2.5, 8
RecommendStocks == {0, 205000, 500000, 4000000}
RecommendDemands == {0, 10, 25000, 80000}

RecommendCalls ==
    [demand_pattern : DemandPatterns, lead_time_days : 0..MaxRecommendLead]

InitRecommend ==
    /\ current_stock \in RecommendStocks
    /\ daily_demand \in RecommendDemands
    /\ include_safety_stock = TRUE
    /\ safety_factor = DefaultSafetyFactor
    /\ order_quantity = 0
    /\ from_date = 0
    /\ suppliers = default_suppliers
    /\ prices = << >>
    /\ op = "none"
    /\ call \in RecommendCalls
    /\ result = None

RecommendScenario ==
    /\ op' = "recommend_scenario"
    /\ result' = recommend_scenario(current_stock, daily_demand,
                                    call.demand_pattern, call.lead_time_days)
    /\ UNCHANGED <<Args, Env, call>>

NextRecommend == RecommendScenario

SpecRecommend == InitRecommend /\ [][NextRecommend]_vars

-----------------------------------------------------------------------------
(* Calls of RiskAssessor.calculate_risk *)

MaxStockSteps == 10
MaxDeliveryDays == 5

\* stock levels 0, 4, 8, ... units
RiskStocks == {k * 4 * Scale : k \in 0..MaxStockSteps}

\* demands in 1/Scale: negative, zero, 0.0005, 1, 2.5, 8, 10
RiskDemands == {-10000, 0, 5, 10000, 25000, 80000, 100000}

RiskFactors == {0, 10, 12, 15}

InitRisk ==
    /\ current_stock \in RiskStocks
    /\ daily_demand \in RiskDemands
    /\ include_safety_stock = TRUE
    /\ safety_factor \in RiskFactors
    /\ order_quantity = 0
    /\ from_date = 0
    /\ suppliers = default_suppliers
    /\ prices = << >>
    /\ op = "none"
    /\ call = None
    /\ result = None

CalculateRisk ==
    \E days \in 0..MaxDeliveryDays :
        /\ op' = "calculate_risk"
        /\ call' = [days_until_delivery |-> days]
        /\ result' = calculate_risk(current_stock, daily_demand, days, safety_factor)
        /\ UNCHANGED <<Args, Env>>

NextRisk == CalculateRisk

SpecRisk == InitRisk /\ [][NextRisk]_vars

-----------------------------------------------------------------------------
(* Calls of the forecast engine *)

MaxSeriesLen == 15

Constant(n, v) == [i \in 1..n |-> v]
Ramp(n, start, step) == [i \in 1..n |-> start + (i - 1) * step]
Spike(n, p, base, peak) == [i \in 1..n |-> IF i = p THEN peak ELSE base]
Weekly(n, low, high) == [i \in 1..n |-> IF (i - 1) % 7 >= 5 THEN high ELSE low]
Alternating(n, low, high) == [i \in 1..n |-> IF i % 2 = 0 THEN high ELSE low]
\* ordinary sales between 8 and 12 units with one day of sales at position p
Jagged(n, p, peak) == [i \in 1..n |-> IF i = p THEN peak ELSE 8 + ((i * i) % 5)]

\* the spike is on the first, a middle or the last day
SpikeDays(n) == {1, (n + 1) \div 2, n} \cap 1..n

\* sales histories of 0 .. MaxSeriesLen days: no sales, level sales, growth
\* and decline, one spike, a weekend pattern, erratic sales
SalesSeries ==
    UNION {   {Constant(n, 0), Constant(n, 10)}
         \cup {Ramp(n, 10, 1), Ramp(n, 10, 3), Ramp(n, 0, 10), Ramp(n, 65, -4),
               Ramp(n, 40, -1)}
         \cup {Spike(n, p, 10, 110) : p \in SpikeDays(n)}
         \cup {Jagged(n, p, 110) : p \in SpikeDays(n)}
         \cup {Weekly(n, 10, 20), Alternating(n, 1, 30), Alternating(n, 10, 16)}
         : n \in 0..MaxSeriesLen }

OutlierMethods == {"zscore", "iqr", "mad"}

\* the library is missing, or present; each of its two calls raises or
\* returns (a seasonal strength of 0.2 or 0.4, a forecast of a week)
Libraries ==
    {[available |-> FALSE, decomposition |-> None, smoothing |-> None],
     [available |-> TRUE, decomposition |-> None, smoothing |-> None],
     [available |-> TRUE, decomposition |-> Some(Frac(2, 10)),
      smoothing |-> Some(<<12, 13, 11, 12, 14, 18, 17>>)],
     [available |-> TRUE, decomposition |-> Some(Frac(4, 10)), smoothing |-> None],
     [available |-> TRUE, decomposition |-> Some(Frac(4, 10)),
      smoothing |-> Some(<<12, 13, 11, 12, 14, 18, 17>>)]}

\* the request: a sales history, the method asked of remove_outliers and what
\* the library does while the request is served
ForecastCalls ==
    [sales_data : SalesSeries, method : OutlierMethods, library : Libraries]

InitForecast ==
    /\ current_stock = 0
    /\ daily_demand = 0
    /\ include_safety_stock = FALSE
    /\ safety_factor = FactorScale
    /\ order_quantity = 0
    /\ from_date = 0
    /\ suppliers = default_suppliers
    /\ prices = << >>
    /\ op = "none"
    /\ call \in ForecastCalls
    /\ result = None

RemoveOutliers ==
    /\ op' = "remove_outliers"
    /\ result' = remove_outliers(call.sales_data, call.method)
    /\ UNCHANGED <<Args, Env, call>>

Classify ==
    /\ op' = "classify"
    /\ result' = classify(call.sales_data, call.library)
    /\ UNCHANGED <<Args, Env, call>>

Analyze ==
    /\ op' = "analyze"
    /\ result' = analyze(call.sales_data, None, call.library)
    /\ UNCHANGED <<Args, Env, call>>

NextForecast ==
    \/ RemoveOutliers
    \/ Classify
    \/ Analyze

SpecForecast == InitForecast /\ [][NextForecast]_vars

-----------------------------------------------------------------------------
(* Calls of TrendAnalyzer.calculate_trend, ConfidenceCalculator.
   calculate_interval and RiskAssessor.calculate_risk with the default
   safety factor *)

\* the call: a series, or the days until delivery of a product
SeriesCalls == [sales_data : SalesSeries]
DeliveryCalls == [days_until_delivery : 0..MaxDeliveryDays]

InitResults ==
    /\ include_safety_stock = TRUE
    /\ safety_factor = DefaultRiskFactor
    /\ order_quantity = 0
    /\ from_date = 0
    /\ suppliers = default_suppliers
    /\ prices = << >>
    /\ op = "none"
    /\ result = None
    /\ \/ /\ call \in SeriesCalls
          /\ current_stock = 0
          /\ daily_demand = 0
       \/ /\ call \in DeliveryCalls
          /\ current_stock \in RiskStocks
          /\ daily_demand \in RiskDemands

CalculateTrend ==
    /\ call \in SeriesCalls
    /\ op' = "calculate_trend"
    /\ result' = calculate_trend(call.sales_data)
    /\ UNCHANGED <<Args, Env, call>>

CalculateInterval ==
    /\ call \in SeriesCalls
    /\ op' = "calculate_interval"
    /\ result' = calculate_interval(call.sales_data, 95)
    /\ UNCHANGED <<Args, Env, call>>

AssessRisk ==
    /\ call \in DeliveryCalls
    /\ op' = "calculate_risk"
    /\ result' = calculate_risk(current_stock, daily_demand,
                                call.days_until_delivery, safety_factor)
    /\ UNCHANGED <<Args, Env, call>>

NextResults ==
    \/ CalculateTrend
    \/ CalculateInterval
    \/ AssessRisk

SpecResults == InitResults /\ [][NextResults]_vars

-----------------------------------------------------------------------------
(* The supplier catalog, the price table and the optimizer *)

MaxLeadTime == 1
MaxOrderQuantity == 100

Skus == {"ATORIS-20MG", "PARA-500"}

\* supplier ids of the calls: the defaults, an added one, one in no catalog
SupplierIds == {"asgeto", "santefarm", "local", "ghost"}

\* a supplier added to the catalog: no order day at all or weekends only
ExtraSuppliers ==
    {Supplier("local", "Local", days, lead, "10:00", 90, "") :
        days \in {{}, {5, 6}}, lead \in 0..MaxLeadTime}

\* set_price calls: unit prices 3.00 and 10.00
PriceUpdates ==
    {<<"ATORIS-20MG", "asgeto", 1000>>,
     <<"ATORIS-20MG", "santefarm", 300>>,
     <<"ATORIS-20MG", "santefarm", 1000>>,
     <<"ATORIS-20MG", "local", 300>>,
     <<"PARA-500", "asgeto", 300>>}

\* available_suppliers: omitted, or a list of ids ("ghost" is in no catalog)
AvailableLists ==
    {None,
     Some(<< >>),
     Some(<<"asgeto">>),
     Some(<<"santefarm", "asgeto">>),
     Some(<<"ghost">>),
     Some(<<"ghost", "local", "santefarm">>),
     Some(<<"asgeto", "asgeto">>)}

\* stock and demand of the product: 2.5 days left, nothing left, no demand
Products == {<<20 * Scale, 8 * Scale>>, <<0, 8 * Scale>>, <<50 * Scale, 0>>}

Init ==
    /\ \E product \in Products :
          /\ current_stock = product[1]
          /\ daily_demand = product[2]
    /\ include_safety_stock = TRUE
    /\ safety_factor = DefaultRiskFactor
    /\ order_quantity \in {1, MaxOrderQuantity}
    /\ from_date \in 0..6
    /\ suppliers = default_suppliers
    /\ prices = << >>
    /\ op = "none"
    /\ call = None
    /\ result = None

Request == <<Args, order_quantity, from_date>>

AddSupplier ==
    \E supplier \in ExtraSuppliers :
        /\ suppliers' = add_supplier(suppliers, supplier)
        /\ op' = "add_supplier"
        /\ call' = [supplier |-> supplier]
        /\ result' = None
        /\ UNCHANGED <<Request, prices>>

SetPrice ==
    \E update \in PriceUpdates :
        /\ prices' = set_price(prices, update[1], update[2], update[3])
        /\ op' = "set_price"
        /\ call' = [sku |-> update[1], supplier_id |-> update[2], price |-> update[3]]
        /\ result' = None
        /\ UNCHANGED <<Request, suppliers>>

FindOptimalSupplier ==
    \E sku \in Skus, available_suppliers \in AvailableLists :
        /\ op' = "find_optimal_supplier"
        /\ call' = [sku |-> sku, available_suppliers |-> available_suppliers]
        /\ result' = find_optimal_supplier(suppliers, prices, sku, current_stock,
                                           daily_demand, order_quantity, from_date,
                                           available_suppliers)
        /\ UNCHANGED <<Request, suppliers, prices>>

GetPrice ==
    \E sku \in Skus, supplier_id \in SupplierIds :
        /\ op' = "get_price"
        /\ call' = [sku |-> sku, supplier_id |-> supplier_id]
        /\ result' = get_price(prices, sku, supplier_id)
        /\ UNCHANGED <<Request, suppliers, prices>>

CompareSuppliers ==
    \E sku \in Skus :
        /\ op' = "compare_suppliers"
        /\ call' = [sku |-> sku]
        /\ result' = compare_suppliers(suppliers, prices, sku, current_stock,
                                       daily_demand, order_quantity, from_date)
        /\ UNCHANGED <<Request, suppliers, prices>>

Next ==
    \/ AddSupplier
    \/ SetPrice
    \/ GetPrice
    \/ FindOptimalSupplier
    \/ CompareSuppliers

Spec == Init /\ [][Next]_vars

-----------------------------------------------------------------------------
(* Calls of Supplier.next_order_date and Supplier.delivery_date *)

\* suppliers with every set of order days, the empty one included
ScheduledSuppliers ==
    {Supplier("local", "Local", days, lead, "10:00", 90, "") :
        days \in SUBSET (0..6), lead \in 0..MaxLeadTime}

InitSchedule ==
    /\ current_stock = 0
    /\ daily_demand = 0
    /\ include_safety_stock = FALSE
    /\ safety_factor = FactorScale
    /\ order_quantity = 0
    /\ from_date \in 0..6
    /\ suppliers = default_suppliers
    /\ prices = << >>
    /\ op = "none"
    /\ call = None
    /\ result = None

NextOrderDate ==
    \E supplier \in ScheduledSuppliers :
        /\ op' = "next_order_date"
        /\ call' = [supplier |-> supplier]
        /\ result' = next_order_date(supplier, from_date)
        /\ UNCHANGED <<Args, Env>>

\* delivery_date of the order date found last
DeliveryDate ==
    /\ op = "next_order_date"
    /\ op' = "delivery_date"
    /\ call' = [supplier |-> call.supplier, order_date |-> result]
    /\ result' = delivery_date(call.supplier, result)
    /\ UNCHANGED <<Args, Env>>

NextSchedule ==
    \/ NextOrderDate
    \/ DeliveryDate

SpecSchedule == InitSchedule /\ [][NextSchedule]_vars

-----------------------------------------------------------------------------
(* Calls of compare_suppliers_coverage and of BulkOrderCalculator *)

MaxMoqQuantity == 25
MaxTiers == 3

\* moq and moq_increment: none, one, a box of 7 or 10, a pallet of 20
Moqs == {0, 1, 10, 20}
MoqIncrements == {0, 1, 2, 7, 10}

\* discount tiers; two of them start at the same quantity
Tiers ==
    {[min_qty |-> 100, discount_percent |-> 10],
     [min_qty |-> 200, discount_percent |-> 20],
     [min_qty |-> 100, discount_percent |-> 25]}

TierLists == SeqsUpTo(Tiers, MaxTiers)

DiscountQuantities == {0, 99, 100, 150, 200, 250}

\* base prices 10.000, 9.996, 2.500 and 0.004, in 1/PriceScale
BasePrices == {10000, 9996, 2500, 4}

Quote(supplier_id, price) == [supplier_id |-> supplier_id, price |-> price]

\* supplier_prices: no supplier, one, two in both orders, equal prices, three
PriceMaps ==
    {<< >>,
     <<Quote("asgeto", 10000)>>,
     <<Quote("asgeto", 10000), Quote("santefarm", 8500)>>,
     <<Quote("santefarm", 8500), Quote("asgeto", 10000)>>,
     <<Quote("asgeto", 8500), Quote("santefarm", 8500)>>,
     <<Quote("asgeto", 10000), Quote("santefarm", 8500), Quote("local", 9999)>>,
     <<Quote("asgeto", 8504), Quote("santefarm", 8500), Quote("local", 0)>>}

\* the pending call: the arguments that are not variables of the module
MoqCalls == [moq : Moqs, moq_increment : MoqIncrements]
DiscountCalls == [base_price : BasePrices, discount_tiers : TierLists]
CompareCalls == [coverage_days : {0, 1, 7}, supplier_prices : PriceMaps]

InitBulk ==
    /\ include_safety_stock = TRUE
    /\ safety_factor = DefaultSafetyFactor
    /\ from_date = 0
    /\ suppliers = default_suppliers
    /\ prices = << >>
    /\ op = "none"
    /\ result = None
    /\ \/ /\ call \in MoqCalls
          /\ order_quantity \in 0..MaxMoqQuantity
          /\ current_stock = 0
          /\ daily_demand = 0
       \/ /\ call \in DiscountCalls
          /\ order_quantity \in DiscountQuantities
          /\ current_stock = 0
          /\ daily_demand = 0
       \/ /\ call \in CompareCalls
          /\ order_quantity = 0
          /\ \E product \in Products \cup {<<50 * Scale, 8 * Scale>>, <<500000, 10>>} :
                /\ current_stock = product[1]
                /\ daily_demand = product[2]

CalculateMoqCompliance ==
    /\ call \in MoqCalls
    /\ op' = "calculate_moq_compliance"
    /\ result' = calculate_moq_compliance(order_quantity, call.moq, call.moq_increment)
    /\ UNCHANGED <<Args, Env, call>>

CalculateVolumeDiscount ==
    /\ call \in DiscountCalls
    /\ op' = "calculate_volume_discount"
    /\ result' = calculate_volume_discount(order_quantity, call.base_price,
                                           call.discount_tiers)
    /\ UNCHANGED <<Args, Env, call>>

CompareSuppliersCoverage ==
    /\ call \in CompareCalls
    /\ op' = "compare_suppliers_coverage"
    /\ result' = compare_suppliers_coverage(current_stock, daily_demand,
                                            call.coverage_days, call.supplier_prices)
    /\ UNCHANGED <<Args, Env, call>>

NextBulk ==
    \/ CalculateMoqCompliance
    \/ CalculateVolumeDiscount
    \/ CompareSuppliersCoverage

SpecBulk == InitBulk /\ [][NextBulk]_vars

-----------------------------------------------------------------------------
(* Requests to the /v3 handlers of one running service *)

\* prices in cents: nothing, either supplier, both, a supplier the catalog
\* does not know
ServicePrices ==
    {<< >>,
     <<Quote("asgeto", 1000)>>,
     <<Quote("santefarm", 300)>>,
     <<Quote("asgeto", 1000), Quote("santefarm", 300)>>,
     <<Quote("ghost", 500)>>}

ComparisonRequests ==
    [sku : {"PARA-500"},
     currentStock : {20 * Scale},
     dailyDemand : {0, 8 * Scale},
     orderQuantity : {56},
     supplierPrices : ServicePrices]

\* products of a daily action list: 2.5, 5 and 12.5 days of stock, no
\* demand; supplierPrices is optional
ListedProducts ==
    {[sku |-> "PARA-500", currentStock |-> 20 * Scale, dailyDemand |-> 8 * Scale,
      supplierPrices |-> <<Quote("asgeto", 1000), Quote("santefarm", 300)>>],
     [sku |-> "PARA-500", currentStock |-> 40 * Scale, dailyDemand |-> 8 * Scale,
      supplierPrices |-> <<Quote("ghost", 500)>>],
     [sku |-> "ATORIS-20MG", currentStock |-> 100 * Scale, dailyDemand |-> 8 * Scale,
      supplierPrices |-> << >>],
     [sku |-> "PARA-500", currentStock |-> 50 * Scale, dailyDemand |-> 0]}

MaxProducts == 2

ActionListRequests ==
    [storeId : {"store-1"}, products : SeqsUpTo(ListedProducts, MaxProducts)]

\* currentStock of a recommendation request: 2.5 and 50 days of a demand of
\* 8, 12.5 and 5 days, 5 days and no entry
StockLevels ==
    {Put(Put(<< >>, "PARA-500", 20 * Scale), "ATORIS-20MG", 400 * Scale),
     Put(Put(<< >>, "PARA-500", 100 * Scale), "ATORIS-20MG", 40 * Scale),
     Put(<< >>, "PARA-500", 40 * Scale)}

SkuPrices ==
    {Put(<< >>, "PARA-500", <<Quote("asgeto", 1000), Quote("santefarm", 300)>>),
     Put(Put(<< >>, "PARA-500", <<Quote("santefarm", 300)>>),
         "ATORIS-20MG", <<Quote("ghost", 500)>>)}

RecommendationRequests ==
    [storeId : {"store-1"},
     skus : {<<"PARA-500", "ATORIS-20MG">>},
     currentStock : StockLevels,
     supplierPrices : SkuPrices,
     includeAnalysis : BOOLEAN,
     analysisPeriodDays : {30}]

\* what fetch_sales_history answers: too short a history and none, no
\* sales, level sales of 8 a day for 3 and for 7 days
SalesHistories ==
    {Put(<< >>, "PARA-500", <<8, 8>>),
     Put(Put(<< >>, "PARA-500", <<8, 8, 8>>), "ATORIS-20MG", <<0, 0, 0>>),
     Put(Put(<< >>, "PARA-500", Repeat(8, 7)), "ATORIS-20MG", <<8, 8, 8>>)}

\* statsmodels is missing
ServiceLibraries == {l \in Libraries : ~l.available}

\* the service after start-up: the engines are constructed once
InitService ==
    /\ current_stock = 0
    /\ daily_demand = 0
    /\ include_safety_stock = TRUE
    /\ safety_factor = DefaultSafetyFactor
    /\ order_quantity = 0
    /\ from_date \in {0, 5}
    /\ suppliers = default_suppliers
    /\ prices = << >>
    /\ op = "none"
    /\ call = None
    /\ result = None

\* a handler's run: the response, and the price table it leaves behind
Serve(handler, input, served) ==
    /\ op' = handler
    /\ call' = input
    /\ prices' = served.pricing
    /\ result' = served.response
    /\ UNCHANGED <<Request, suppliers>>

SupplierComparison ==
    \E req \in ComparisonRequests :
        Serve("/v3/supplier-comparison", [request |-> req],
              supplier_comparison(prices, suppliers, from_date, req))

DailyActionList ==
    \E req \in ActionListRequests :
        Serve("/v3/daily-action-list", [request |-> req],
              daily_action_list(prices, suppliers, from_date, req))

Recommendations ==
    \E req \in RecommendationRequests, sales_history \in SalesHistories,
       library \in ServiceLibraries :
        Serve("/v3/recommendations",
              [request |-> req, sales_history |-> sales_history, library |-> library],
              generate_v3_recommendations(prices, suppliers, from_date, req,
                                          sales_history, library))

NextService ==
    \/ SupplierComparison
    \/ DailyActionList
    \/ Recommendations

SpecService == InitService /\ [][NextService]_vars

-----------------------------------------------------------------------------
(* Claims about CoverageCalculator, checked under SpecCoverage *)

IsCoverage == op = "calculate_current_coverage"
IsOrder == op = "calculate_order_quantity"
IsScenarios == op = "generate_scenarios"

\* C1 as stated: every daily_demand <= 0.001, exactly 0.001 included, gives
\* status NO_DEMAND with days_remaining = 365 and no stockout date.
C1_AsStated ==
    (IsCoverage /\ daily_demand <= DemandEpsilon) =>
        /\ result.status = "NO_DEMAND"
        /\ result.days_remaining = MAX_COVERAGE_DAYS * Centi
        /\ result.stockout_date = None

\* C1 amended: every daily_demand strictly below 0.001 (zero and negative
\* included) gives status NO_DEMAND with days_remaining = 365 and no stockout
\* date, for every stock; a demand of exactly 0.001 is not a no-demand case.
C1_NoDemandBelowThreshold ==
    IsCoverage =>
        /\ daily_demand < DemandEpsilon =>
              /\ result.status = "NO_DEMAND"
              /\ result.days_remaining = MAX_COVERAGE_DAYS * Centi
              /\ result.stockout_date = None
        /\ daily_demand >= DemandEpsilon => result.status # "NO_DEMAND"

C1_Witness ==
    /\ IsCoverage
    /\ daily_demand > 0
    /\ daily_demand < DemandEpsilon
    /\ current_stock > 0
    /\ result.status = "NO_DEMAND"

\* C2: above the no-demand threshold the status is the first matching
\* threshold on min(stock/demand, 365): below 1 CRITICAL, below 3 URGENT,
\* below 7 LOW, below 30 GOOD, otherwise OVERSTOCKED; stock 50 and demand 8
\* give 6.25 days and LOW.
C2_StatusLadder ==
    (IsCoverage /\ daily_demand > DemandEpsilon) =>
        LET s == current_stock
            d == daily_demand
        IN  /\ result.status \in {"CRITICAL", "URGENT", "LOW", "GOOD", "OVERSTOCKED"}
            /\ result.status = "CRITICAL" <=> s < d
            /\ result.status = "URGENT" <=> (d <= s /\ s < 3 * d)
            /\ result.status = "LOW" <=> (3 * d <= s /\ s < 7 * d)
            /\ result.status = "GOOD" <=> (7 * d <= s /\ s < 30 * d)
            /\ result.status = "OVERSTOCKED" <=> 30 * d <= s
            /\ (s = 50 * Scale /\ d = 8 * Scale) =>
                  (result.days_remaining = 625 /\ result.status = "LOW")

C2_Witness ==
    /\ IsCoverage
    /\ current_stock = 50 * Scale
    /\ daily_demand = 8 * Scale
    /\ result.days_remaining = 625
    /\ result.status = "LOW"

\* C3 as stated: in every result days_remaining is at most 365 and a
\* stockout_date is present exactly when days_remaining is below 365.
C3_AsStated ==
    IsCoverage =>
        /\ result.days_remaining <= MAX_COVERAGE_DAYS * Centi
        /\ result.stockout_date # None <=>
              result.days_remaining < MAX_COVERAGE_DAYS * Centi

\* C3 amended: the reported days_remaining never exceeds 365; a stockout_date
\* is present exactly when the unrounded min(stock/demand, 365) is strictly
\* below 365 (absent in the NO_DEMAND case and whenever the cap is reached);
\* a reported days_remaining below 365 always comes with a stockout_date.
C3_CapAndStockoutDate ==
    IsCoverage =>
        /\ result.days_remaining <= MAX_COVERAGE_DAYS * Centi
        /\ result.stockout_date # None <=>
              /\ daily_demand >= DemandEpsilon
              /\ current_stock < MAX_COVERAGE_DAYS * daily_demand
        /\ result.days_remaining < MAX_COVERAGE_DAYS * Centi =>
              result.stockout_date # None

\* 364.996 days remain: the date is computed, the report rounds to 365.0
C3_Witness ==
    /\ IsCoverage
    /\ daily_demand >= DemandEpsilon
    /\ current_stock < MAX_COVERAGE_DAYS * daily_demand
    /\ result.days_remaining = MAX_COVERAGE_DAYS * Centi
    /\ result.stockout_date # None

\* the least q >= 0 with q >= required - stock, required = demand * target * f
IsLeastOrder(q) ==
    LET f == IF include_safety_stock THEN safety_factor ELSE FactorScale
        need == daily_demand * result.target_coverage_days * f
                    - current_stock * FactorScale
        unit == Scale * FactorScale
    IN  /\ q >= 0
        /\ q * unit >= need
        /\ q > 0 => (q - 1) * unit < need

C4_Example ==
    /\ current_stock = 50 * Scale
    /\ daily_demand = 8 * Scale
    /\ result.target_coverage_days = 7
    /\ include_safety_stock
    /\ safety_factor = 12

\* C4 as stated: above the threshold order_quantity = max(0, ceil(demand *
\* target_days * f - stock)) and final_stock = stock + order_quantity; at or
\* below the threshold order_quantity = 0, final_stock = stock and
\* actual_coverage_days = 365.
C4_AsStated ==
    IsOrder =>
        /\ daily_demand > DemandEpsilon =>
              /\ IsLeastOrder(result.order_quantity)
              /\ result.final_stock = current_stock + result.order_quantity * Scale
        /\ daily_demand <= DemandEpsilon =>
              /\ result.order_quantity = 0
              /\ result.final_stock = current_stock
              /\ result.actual_coverage_days = MAX_COVERAGE_DAYS * Centi

\* C4 amended: for daily_demand at or above the threshold 0.001
\* order_quantity = max(0, ceil(demand * target_days * f - stock)), a
\* non-negative integer, and final_stock = stock + order_quantity (18 and 68
\* in the example); for demand strictly below the threshold order_quantity = 0,
\* final_stock = stock and actual_coverage_days = 365.
C4_OrderQuantity ==
    IsOrder =>
        /\ result.order_quantity \in Nat
        /\ daily_demand >= DemandEpsilon =>
              /\ IsLeastOrder(result.order_quantity)
              /\ result.final_stock = current_stock + result.order_quantity * Scale
        /\ daily_demand < DemandEpsilon =>
              /\ result.order_quantity = 0
              /\ result.final_stock = current_stock
              /\ result.actual_coverage_days = MAX_COVERAGE_DAYS * Centi
        /\ C4_Example =>
              /\ result.order_quantity = 18
              /\ result.final_stock = 68 * Scale
              /\ result.actual_coverage_days = 850

C4_Witness ==
    /\ IsOrder
    /\ C4_Example
    /\ result.order_quantity = 18
    /\ result.final_stock = 68 * Scale

ScenariosMonotone ==
    IsScenarios =>
        \A i, j \in DOMAIN result.scenarios :
            result.scenarios[i].coverage_days <= result.scenarios[j].coverage_days =>
                result.scenarios[i].order_quantity <= result.scenarios[j].order_quantity

\* C5: with stock, demand, include_safety_stock and safety_factor >= 0 fixed,
\* a call of calculate_order_quantity with a larger target_coverage_days never
\* returns a smaller order_quantity, and the scenarios of generate_scenarios
\* have order quantities non-decreasing in their periods.
C5_MonotoneInTarget ==
    [][safety_factor >= 0 =>
          /\ (IsOrder /\ IsOrder'
                /\ result.target_coverage_days <= result'.target_coverage_days) =>
                    result.order_quantity <= result'.order_quantity
          /\ ScenariosMonotone']_vars

C5_Witness ==
    /\ IsScenarios
    /\ safety_factor >= 0
    /\ Len(result.scenarios) = 2
    /\ result.scenarios[1].coverage_days < result.scenarios[2].coverage_days
    /\ result.scenarios[1].order_quantity < result.scenarios[2].order_quantity

-----------------------------------------------------------------------------
(* Claims about RiskAssessor, checked under SpecRisk *)

IsRisk == op = "calculate_risk"

RiskScoreOf(level) ==
    CASE level = "NONE" -> 0
      [] level = "LOW" -> 3
      [] level = "MEDIUM" -> 6
      [] level = "HIGH" -> 8
      [] level = "CRITICAL" -> 10

C7_Example ==
    /\ IsRisk
    /\ current_stock = 20 * Scale
    /\ daily_demand = 8 * Scale
    /\ call.days_until_delivery = 3
    /\ safety_factor = DefaultRiskFactor

\* C7 as stated: stock 20, demand 8, days_until_delivery 3 and safety factor
\* 1.2 give level HIGH with score 0.8.
C7_AsStated ==
    C7_Example => (result.level = "HIGH" /\ result.score = 8)

\* C7 amended: stock 20, demand 8 (days_remaining 2.5), days_until_delivery 3
\* and safety factor 1.2 (safe_days_needed 3.6) give level MEDIUM with score
\* 0.6, because 2.5 >= 2.1 = 0.7 * 3.
C7_ExampleIsMedium ==
    C7_Example =>
        /\ result.level = "MEDIUM"
        /\ result.score = 6
        /\ result.days_remaining.num * 2 = 5 * result.days_remaining.den
        /\ result.safe_days_needed.num * 10 = 36 * result.safe_days_needed.den

C7_Witness ==
    /\ C7_Example
    /\ result.level = "MEDIUM"

-----------------------------------------------------------------------------
(* Claims about SupplierOptimizer.find_optimal_supplier, checked under Spec *)

IsFind == op = "find_optimal_supplier"

\* C8: the list returned by find_optimal_supplier is sorted ascending by
\* score; when it is non-empty the option at index 0, and no other option,
\* carries recommended = true; an empty list carries no recommendation.
C8_SortedOneRecommended ==
    IsFind =>
        /\ \A i, j \in DOMAIN result : i < j => result[i].score <= result[j].score
        /\ \A i \in DOMAIN result : "recommended" \in DOMAIN result[i] <=> i = 1
        /\ result # << >> => result[1].recommended = TRUE

\* the sort moved the second supplier of the catalog to the front
C8_Witness ==
    /\ IsFind
    /\ call.available_suppliers = None
    /\ Len(result) >= 2
    /\ result[1].supplier_id = "santefarm"
    /\ result[1].score < result[2].score
    /\ result[1].recommended = TRUE

\* the ids considered by the call, in order
AskedIds ==
    IF call.available_suppliers = None
    THEN [i \in DOMAIN suppliers |-> suppliers[i].id]
    ELSE call.available_suppliers[1]

InCatalog(id) == \E i \in DOMAIN suppliers : suppliers[i].id = id

HasPrice(id) == call.sku \in DOMAIN prices /\ id \in DOMAIN prices[call.sku]

\* C9: find_optimal_supplier returns exactly one option per candidate (an
\* entry of the catalog, or an entry of available_suppliers whose id is in the
\* catalog) that has a price for the sku, no option for a candidate without a
\* price and none for an id that is not in the catalog; no option is an error
\* entry.
C9_OptionPerPricedCandidate ==
    IsFind =>
        /\ \A id \in SupplierIds :
              Cardinality({i \in DOMAIN result : result[i].supplier_id = id})
                  = IF InCatalog(id) /\ HasPrice(id)
                    THEN Cardinality({i \in DOMAIN AskedIds : AskedIds[i] = id})
                    ELSE 0
        /\ \A i \in DOMAIN result :
              /\ result[i].supplier_id \in SupplierIds
              /\ "error" \notin DOMAIN result[i]
              /\ result[i].unit_price = prices[call.sku][result[i].supplier_id]

\* an unknown id, a catalog supplier without a price and a priced one
C9_Witness ==
    /\ IsFind
    /\ call.available_suppliers = Some(<<"ghost", "local", "santefarm">>)
    /\ InCatalog("local")
    /\ ~HasPrice("local")
    /\ Len(result) = 1
    /\ result[1].supplier_id = "santefarm"

Penalty(option) == option.total_cost + (100 - option.reliability) * 100

\* C10 as stated: of two options of the same call the one with the strictly
\* lower risk score is ranked first, whatever the prices, the quantity and the
\* reliabilities.
C10_AsStated ==
    IsFind =>
        \A i, j \in DOMAIN result :
            result[i].risk.score < result[j].risk.score => i < j

\* C10 amended: every option has score = risk.score * 1000 + total_cost +
\* (1 - reliability) * 100 and the ranking follows the score alone; the option
\* with the strictly lower risk score is ranked first whenever its total_cost
\* + (1 - reliability) * 100 exceeds the other's by less than 1000 times the
\* difference of the risk scores.
C10_RankedByTotalScore ==
    IsFind =>
        \A i, j \in DOMAIN result :
            /\ result[i].score = result[i].risk.score * 10000 + Penalty(result[i])
            /\ result[i].score < result[j].score => i < j
            /\ ( /\ result[i].risk.score < result[j].risk.score
                 /\ Penalty(result[i]) - Penalty(result[j])
                       < 10000 * (result[j].risk.score - result[i].risk.score) )
               => i < j

\* the safer option is ranked first although it costs more
C10_Witness ==
    /\ IsFind
    /\ Len(result) >= 2
    /\ result[1].risk.score < result[2].risk.score
    /\ result[1].total_cost > result[2].total_cost

-----------------------------------------------------------------------------
(* Claims about PricingEngine, checked under Spec *)

IsGetPrice == op = "get_price"

\* the price table as get_price shows it
Quotes(table) ==
    [pair \in Skus \X SupplierIds |-> get_price(table, pair[1], pair[2])]

\* C11: no pair has a price before the first set_price; a set_price step
\* makes get_price of its (sku, supplier_id) pair return its price and leaves
\* get_price of every other pair as it was; no other step changes any price,
\* and get_price returns what the table holds for the pair.  Hence get_price
\* returns the price of the most recent set_price of the pair, and None if
\* the pair was never set.
C11_LastWriteWins ==
    /\ \A pair \in Skus \X SupplierIds : Quotes(prices)[pair] = None
    /\ [][ /\ op' = "set_price" =>
                 Quotes(prices') = [Quotes(prices) EXCEPT
                     ![<<call'.sku, call'.supplier_id>>] = Some(call'.price)]
           /\ op' # "set_price" => Quotes(prices') = Quotes(prices)
           /\ op' = "get_price" =>
                 result' = Quotes(prices)[<<call'.sku, call'.supplier_id>>]
         ]_vars

\* get_price reads a price that replaced 3.00 or was set once, beside another
\* pair of the same sku with another price and a pair never set
C11_Witness ==
    /\ IsGetPrice
    /\ call.sku = "ATORIS-20MG"
    /\ call.supplier_id = "santefarm"
    /\ result = Some(1000)
    /\ get_price(prices, "ATORIS-20MG", "local") = Some(300)
    /\ get_price(prices, "PARA-500", "santefarm") = None

-----------------------------------------------------------------------------
(* Claims about the forecast engine, checked under SpecForecast *)

IsRemove == op = "remove_outliers"
IsClassify == op = "classify"
IsAnalyze == op = "analyze"

\* C12: analyze of fewer than 3 observations, the empty series included,
\* returns the error result with min_required = 3 and received = the number
\* of observations, and nothing else: no field of a later pipeline step.
C12_InsufficientData ==
    (IsAnalyze /\ Len(call.sales_data) < 3) =>
        result = [error |-> "Insufficient data",
                  min_required |-> 3,
                  received |-> Len(call.sales_data)]

\* two observations, and a library that would have answered
C12_Witness ==
    /\ IsAnalyze
    /\ Len(call.sales_data) = 2
    /\ call.library.available
    /\ call.library.smoothing # None
    /\ result.received = 2
    /\ DOMAIN result = {"error", "min_required", "received"}

\* the indices (of the Python list) that the method of the call flags
Flagged ==
    IF Len(call.sales_data) < 3 THEN {}
    ELSE LET found == CASE call.method = "zscore" -> detect_zscore(call.sales_data)
                        [] call.method = "iqr" -> detect_iqr(call.sales_data)
                        [] OTHER -> << >>
         IN  {found[k] : k \in DOMAIN found}

\* cleaned is data without the elements at the indices of flagged, in order
IsDataMinus(cleaned, data, flagged) ==
    LET kept == {i \in DOMAIN data : (i - 1) \notin flagged}
    IN  /\ Len(cleaned) = Cardinality(kept)
        /\ \A i \in kept : cleaned[Cardinality({j \in kept : j <= i})] = data[i]

\* C13: when the flagged indices are more than half of the points,
\* remove_outliers returns the original series and no removed index;
\* otherwise it returns the series minus exactly the flagged indices, in the
\* original order, and the flagged indices.  The cleaned series keeps at
\* least half of the points.
C13_RemovalKeepsHalf ==
    IsRemove =>
        LET data == call.sales_data
        IN  /\ IF 2 * Cardinality(Flagged) > Len(data)
               THEN result = [cleaned_data |-> data, outlier_indices |-> << >>]
               ELSE /\ IsDataMinus(result.cleaned_data, data, Flagged)
                    /\ {result.outlier_indices[k] : k \in DOMAIN result.outlier_indices}
                           = Flagged
            /\ 2 * Len(result.cleaned_data) >= Len(data)

\* a point of a series is flagged and removed, the others keep their order
C13_Witness ==
    /\ IsRemove
    /\ call.method = "iqr"
    /\ Cardinality(Flagged) = 1
    /\ Len(result.cleaned_data) = Len(call.sales_data) - 1
    /\ Len(result.outlier_indices) = 1
    /\ \E i, j \in DOMAIN result.cleaned_data :
          i < j /\ result.cleaned_data[i] # result.cleaned_data[j]

\* a series of n sales with exactly one day of 110 units, the other days
\* selling between 8 and 12 units
SpikeAt(data, p) ==
    /\ p \in DOMAIN data
    /\ data[p] = 110
    /\ \A i \in DOMAIN data \ {p} : data[i] \in 8..12

Erratic == 4 * result.characteristics.cv_squared.num
               > result.characteristics.cv_squared.den
LowVariation == 25 * result.characteristics.cv_squared.num
                    < result.characteristics.cv_squared.den
StrongTrendTo(direction) ==
    /\ result.characteristics.trend_direction = direction
    /\ 10 * result.characteristics.trend_strength.num
           > result.characteristics.trend_strength.den
\* a decomposition exists (library present, two periods of data, no failure)
\* and its seasonal_strength exceeds 0.3
StrongSeason ==
    /\ call.library.available
    /\ Len(call.sales_data) >= 14
    /\ call.library.decomposition # None
    /\ 10 * call.library.decomposition[1].num > 3 * call.library.decomposition[1].den

\* C15: on at least 7 points classify returns the outcome of the first rule
\* that matches, in the order ERRATIC (0.8), GROWING, DECLINING, STEADY (0.9),
\* then SEASONAL (0.85) or STEADY (0.7); a series with CV > 0.5 is ERRATIC
\* whatever its trend and a series with a strong trend is never SEASONAL;
\* below 7 points the result is INSUFFICIENT_DATA with confidence 0.
C15_FirstMatchingRule ==
    IsClassify =>
        IF Len(call.sales_data) < 7
        THEN result.pattern = "INSUFFICIENT_DATA" /\ result.confidence = Frac(0, 1)
        ELSE /\ result.pattern =
                   IF Erratic THEN "ERRATIC"
                   ELSE IF StrongTrendTo("GROWING") THEN "GROWING"
                   ELSE IF StrongTrendTo("DECLINING") THEN "DECLINING"
                   ELSE IF LowVariation THEN "STEADY"
                   ELSE IF StrongSeason THEN "SEASONAL"
                   ELSE "STEADY"
             /\ result.pattern = "ERRATIC" => result.confidence = Frac(8, 10)
             /\ result.pattern = "SEASONAL" => result.confidence = Frac(85, 100)
             /\ result.pattern = "STEADY" =>
                   result.confidence = IF LowVariation THEN Frac(9, 10) ELSE Frac(7, 10)
             /\ Erratic => result.pattern = "ERRATIC"
             /\ (StrongTrendTo("GROWING") \/ StrongTrendTo("DECLINING"))
                    => result.pattern # "SEASONAL"

\* an erratic series with a strong upward trend is ERRATIC
C15_Witness ==
    /\ IsClassify
    /\ Len(call.sales_data) >= 7
    /\ Erratic
    /\ StrongTrendTo("GROWING")
    /\ result.pattern = "ERRATIC"
    /\ result.confidence = Frac(8, 10)

\* C16: analyze of at least 3 observations returns a forecast of exactly 7
\* values; the values are those of the library smoothing only when the
\* cleaned series has at least 14 points and the library is present and
\* returns; in every other case the method is the weighted moving average and
\* its 7 values are all equal to daily_average.
C16_SevenValuesWithFallback ==
    (IsAnalyze /\ Len(call.sales_data) >= 3) =>
        LET library_answers == /\ result.cleaned_data_points >= 14
                               /\ call.library.available
                               /\ call.library.smoothing # None
        IN  /\ "error" \notin DOMAIN result
            /\ Len(result.forecast.next_7_days) = 7
            /\ IF library_answers
               THEN /\ result.forecast.method = "holt_winters"
                    /\ result.forecast.next_7_days = call.library.smoothing[1]
               ELSE /\ result.forecast.method = "weighted_moving_average"
                    /\ \A i \in 1..7 :
                          result.forecast.next_7_days[i] = result.forecast.daily_average

\* the library is present and fails on two weeks of growing sales: fallback
C16_Witness ==
    /\ IsAnalyze
    /\ "forecast" \in DOMAIN result
    /\ result.cleaned_data_points >= 14
    /\ call.library.available
    /\ call.library.smoothing = None
    /\ result.forecast.method = "weighted_moving_average"
    /\ result.classification.pattern = "GROWING"
    /\ result.forecast.daily_average.adjustment # Frac(1, 1)

-----------------------------------------------------------------------------
(* Claims about Supplier, checked under SpecSchedule *)

IsNextOrderDate == op = "next_order_date"
IsDeliveryDate == op = "delivery_date"

\* C19: next_order_date returns from_date when its weekday is an order day;
\* otherwise, for a non-empty set of order days, the earliest later date on
\* an order day, at most 6 days later; for an empty set from_date + 7.  The
\* date is never before from_date, and delivery_date is lead_time_days after
\* the order date.
C19_NextOrderDate ==
    /\ IsNextOrderDate =>
          LET days == call.supplier.order_days
          IN  /\ Weekday(from_date) \in days => result = from_date
              /\ (Weekday(from_date) \notin days /\ days # {}) =>
                    /\ result \in (from_date + 1)..(from_date + 6)
                    /\ Weekday(result) \in days
                    /\ \A d \in (from_date + 1)..(result - 1) : Weekday(d) \notin days
              /\ days = {} => result = from_date + 7
              /\ result >= from_date
    /\ IsDeliveryDate =>
          result = call.order_date + call.supplier.lead_time_days

\* a Saturday, a supplier taking orders on Mondays and Wednesdays: Monday
C19_Witness ==
    /\ IsNextOrderDate
    /\ from_date = 5
    /\ call.supplier.order_days = {0, 2}
    /\ result = 7

-----------------------------------------------------------------------------
(* Claims about BulkOrderCalculator and compare_suppliers_coverage, checked
   under SpecBulk *)

IsVolumeDiscount == op = "calculate_volume_discount"
IsMoqCompliance == op = "calculate_moq_compliance"
IsCompare == op = "compare_suppliers_coverage"

\* the lists holding the same tiers in another order
Reorderings(tiers) ==
    LET n == Len(tiers)
        shuffles == {f \in [1..n -> 1..n] : \A i, j \in 1..n : f[i] = f[j] => i = j}
    IN  {[i \in 1..n |-> tiers[f[i]]] : f \in shuffles}

\* the positions of the tiers the quantity reaches
Qualifying(tiers, quantity) == {i \in DOMAIN tiers : tiers[i].min_qty <= quantity}

\* the example of the claim: one tier (100, 10 %), 150 units at 10.00
IsDiscountExample ==
    /\ IsVolumeDiscount
    /\ call.discount_tiers = <<[min_qty |-> 100, discount_percent |-> 10]>>
    /\ order_quantity = 150
    /\ call.base_price = 10 * PriceScale

\* C17 as stated: the discount is that of the tier with the largest min_qty
\* among the tiers the quantity reaches, the same for every order of the
\* tier list; when no tier qualifies the discount is 0, final_price is
\* base_price and total_savings is 0.
C17_AsStated ==
    IsVolumeDiscount =>
        LET tiers == call.discount_tiers
            reached == Qualifying(tiers, order_quantity)
        IN  /\ \A other \in Reorderings(tiers) :
                  calculate_volume_discount(order_quantity, call.base_price,
                                            other).discount_percent
                      = result.discount_percent
            /\ reached = {} =>
                  /\ result.discount_percent = 0
                  /\ result.final_price * PriceScale = call.base_price * Centi
                  /\ result.total_savings = 0

\* C17: the discount is that of the tier with the largest min_qty among the
\* tiers the quantity reaches and, where several tiers share that min_qty,
\* of the one of them listed first, so the order of the list matters only
\* among tiers of equal min_qty; when no tier qualifies the discount and
\* total_savings are 0 and final_price is base_price rounded to cents.
\* One tier (100, 10 %), 150 units at 10.00 give 9.00 a unit and 1350.00.
C17_FirstOfHighestTier ==
    IsVolumeDiscount =>
        LET tiers == call.discount_tiers
            reached == Qualifying(tiers, order_quantity)
            highest == {i \in reached : \A j \in reached :
                            tiers[i].min_qty >= tiers[j].min_qty}
            distinct == \A i, j \in DOMAIN tiers :
                            tiers[i].min_qty = tiers[j].min_qty => i = j
        IN  /\ reached # {} =>
                  LET first == CHOOSE i \in highest : \A j \in highest : i <= j
                  IN  /\ result.tier = Some(tiers[first])
                      /\ result.discount_percent = tiers[first].discount_percent
            /\ distinct =>
                  \A other \in Reorderings(tiers) :
                      calculate_volume_discount(order_quantity, call.base_price,
                                                other) = result
            /\ reached = {} =>
                  /\ result.tier = None
                  /\ result.discount_percent = 0
                  /\ result.discount_amount = 0
                  /\ result.final_price
                         = RoundHalfEven(call.base_price * Centi, PriceScale)
                  /\ result.total_savings = 0
            /\ IsDiscountExample =>
                  /\ result.discount_percent = 10
                  /\ result.final_price = 9 * Centi
                  /\ result.total_cost = 1350 * Centi

\* 250 units, the tiers listed in ascending order: the tier of 200 applies
C17_Witness ==
    /\ IsVolumeDiscount
    /\ call.discount_tiers = <<[min_qty |-> 100, discount_percent |-> 10],
                               [min_qty |-> 200, discount_percent |-> 20]>>
    /\ order_quantity = 250
    /\ result.discount_percent = 20

C20_ComparisonSorted ==
    IsCompare =>
        LET quotes == call.supplier_prices
            costs == {result[i].total_cost : i \in DOMAIN result}
        IN  /\ Len(result) = Len(quotes)
            /\ \A k \in DOMAIN quotes :
                  Cardinality({i \in DOMAIN result :
                      result[i].supplier_id = quotes[k].supplier_id}) = 1
            /\ \A i, j \in DOMAIN result :
                  /\ result[i].order_quantity = result[j].order_quantity
                  /\ i < j => result[i].total_cost <= result[j].total_cost
            /\ \A i \in DOMAIN result :
                  /\ \E c \in costs :
                        /\ \A d \in costs : c >= d
                        /\ result[i].savings = c - result[i].total_cost
                  /\ result[i].savings >= 0
                  /\ (\A d \in costs : result[i].total_cost >= d) =>
                        result[i].savings = 0
                  /\ result[i].is_cheapest =>
                        \A d \in costs : result[i].total_cost <= d
            /\ result # << >> => \E i \in DOMAIN result : result[i].is_cheapest

\* three suppliers listed dearest first, an order that costs something: the
\* cheapest comes first and saves the most, the dearest last and saves nothing
C20_Witness ==
    /\ IsCompare
    /\ Len(result) = 3
    /\ call.supplier_prices[1].supplier_id = "asgeto"
    /\ result[1].supplier_id = "santefarm"
    /\ result[1].is_cheapest
    /\ result[1].savings > 0
    /\ result[3].supplier_id = "asgeto"
    /\ result[3].savings = 0
    /\ ~result[3].is_cheapest

-----------------------------------------------------------------------------
(* Claims about CoverageCalculator.recommend_scenario, checked under
   SpecRecommend *)

IsRecommend == op = "recommend_scenario"

KnownPatterns == {"STEADY", "GROWING", "DECLINING", "SEASONAL", "ERRATIC"}

C30_AsStated ==
    IsRecommend => result.recommended_coverage_days >= call.lead_time_days

\* C30: for the five known patterns the recommended window is at least the
\* lead time; for any other pattern value (INSUFFICIENT_DATA included) the
\* window is 14 days whatever the lead time, so it covers the lead time
\* exactly when the lead time is at most 14 days.
C30_WindowCoversLeadTime ==
    IsRecommend =>
        LET window == result.recommended_coverage_days
            lead == call.lead_time_days
        IN  /\ call.demand_pattern \in KnownPatterns => window >= lead
            /\ call.demand_pattern \notin KnownPatterns =>
                  (window >= lead <=> lead <= 14)

\* a product with too little history and a lead time of 15 days: 14 days
C30_Witness ==
    /\ IsRecommend
    /\ call.demand_pattern = "INSUFFICIENT_DATA"
    /\ call.lead_time_days = 15
    /\ result.recommended_coverage_days = 14

-----------------------------------------------------------------------------
(* Claims about the stock after ordering and the reported coverage, checked
   under SpecCoverage *)

\* the factor applied to the requirement: safety_factor when safety stock is
\* included, 1 otherwise
AppliedFactor == IF include_safety_stock THEN safety_factor ELSE FactorScale

\* C25: with demand at or above the no-demand threshold, a target of at
\* least 0 days and an applied factor f >= 0, the stock after ordering is at
\* least demand * target_days * f, and one unit less would not be: whenever
\* order_quantity > 0, final_stock - 1 < demand * target_days * f.
C25_FinalStockCoversTarget ==
    (/\ IsOrder
     /\ daily_demand >= DemandEpsilon
     /\ call.target_coverage_days >= 0
     /\ AppliedFactor >= 0) =>
        LET required == daily_demand * call.target_coverage_days * AppliedFactor
        IN  /\ result.final_stock * FactorScale >= required
            /\ result.order_quantity > 0 =>
                  (result.final_stock - Scale) * FactorScale < required

\* 2.5 units in stock, 2.5 a day, 8 days at factor 1.2 (24 units): 22 units
\* are ordered and 24.5 are in stock afterwards
C25_Witness ==
    /\ IsOrder
    /\ current_stock = 25000
    /\ daily_demand = 25000
    /\ call.target_coverage_days = 8
    /\ AppliedFactor = 12
    /\ result.order_quantity = 22
    /\ result.final_stock = 245000

\* the status the thresholds assign to a day count in 1/100
StatusOfReported(days) ==
    IF days < 1 * Centi THEN "CRITICAL"
    ELSE IF days < 3 * Centi THEN "URGENT"
    ELSE IF days < 7 * Centi THEN "LOW"
    ELSE IF days < 30 * Centi THEN "GOOD"
    ELSE "OVERSTOCKED"

\* C26 as stated: above the no-demand threshold the reported status is the
\* one the thresholds assign to the reported days_remaining.
C26_AsStated ==
    (IsCoverage /\ daily_demand >= DemandEpsilon) =>
        result.status = StatusOfReported(result.days_remaining)

\* the day count just below a threshold that rounding lifts onto it
RoundedOntoThreshold ==
    /\ result.days_remaining \in {1 * Centi, 3 * Centi, 7 * Centi, 30 * Centi}
    /\ current_stock * Centi < result.days_remaining * daily_demand

\* C26: above the no-demand threshold the reported days_remaining is
\* min(stock/demand, 365) rounded to the nearest 1/100, and the status is the
\* one the thresholds assign to the unrounded value: it is the status of the
\* reported value unless rounding lifted the value onto a threshold (1, 3, 7
\* or 30), and then it is the status below that threshold.
C26_StatusOfUnroundedDays ==
    (IsCoverage /\ daily_demand >= DemandEpsilon) =>
        LET reported == result.days_remaining
        IN  /\ reported <= MAX_COVERAGE_DAYS * Centi
            /\ reported < MAX_COVERAGE_DAYS * Centi =>
                  /\ 2 * (reported * daily_demand - current_stock * Centi)
                         <= daily_demand
                  /\ 2 * (current_stock * Centi - reported * daily_demand)
                         <= daily_demand
            /\ ~RoundedOntoThreshold =>
                  result.status = StatusOfReported(reported)
            /\ RoundedOntoThreshold =>
                  result.status = StatusOfReported(reported - 1)

\* 2.996 units in stock, 1 a day: 3.0 days are reported, the status is URGENT
C26_Witness ==
    /\ IsCoverage
    /\ current_stock = 29960
    /\ daily_demand = Scale
    /\ result.days_remaining = 3 * Centi
    /\ result.status = "URGENT"

-----------------------------------------------------------------------------
(* A further claim about BulkOrderCalculator, checked under SpecBulk *)

\* C28: for order_quantity >= 0, moq >= 1 and moq_increment >= 1 the
\* adjusted quantity is at least moq, at least the quantity asked for
\* (extra_units is never negative) and a multiple of moq_increment.
C28_MeetsBothConstraints ==
    (IsMoqCompliance /\ order_quantity >= 0 /\ call.moq >= 1
        /\ call.moq_increment >= 1) =>
        /\ result.adjusted_quantity >= call.moq
        /\ result.adjusted_quantity >= order_quantity
        /\ result.extra_units >= 0
        /\ result.adjusted_quantity % call.moq_increment = 0

-----------------------------------------------------------------------------
(* A claim about the results of degenerate calls, checked under SpecResults *)

IsTrend == op = "calculate_trend"
IsInterval == op = "calculate_interval"

TrendFields == {"direction", "slope", "relative_slope", "r_squared", "confidence"}
RiskFields ==
    {"level", "score", "days_remaining", "days_until_delivery",
     "safe_days_needed", "message"}
IntervalFields == {"mean", "std", "lower", "upper", "margin", "confidence"}

\* C24: the result of a degenerate call carries the fields of the normal
\* result: the trend of fewer than 7 values has direction, slope,
\* relative_slope, r_squared and confidence; the risk without demand has
\* level, score, days_remaining, days_until_delivery, safe_days_needed and
\* message; the interval of fewer than 2 values has mean, std, lower, upper,
\* margin and the confidence level.
C24_DegenerateResultsComplete ==
    /\ (IsTrend /\ Len(call.sales_data) < TrendPeriod) =>
          /\ TrendFields \subseteq DOMAIN result
          /\ result.direction = "INSUFFICIENT_DATA"
    /\ (IsRisk /\ daily_demand <= 0) =>
          /\ RiskFields \subseteq DOMAIN result
          /\ result.level = "NONE"
    /\ (IsInterval /\ Len(call.sales_data) < 2) =>
          IntervalFields \subseteq DOMAIN result

-----------------------------------------------------------------------------
(* A claim about SupplierOptimizer.compare_suppliers, checked under Spec *)

IsCompareSuppliers == op = "compare_suppliers"

\* C27: in a non-empty comparison every option's savings_vs_max is the
\* largest total_cost of the options minus its own and is never negative,
\* and max_savings is the largest savings_vs_max of the options.
C27_SavingsAgainstDearest ==
    (IsCompareSuppliers /\ result.all_options # << >>) =>
        LET options == result.all_options
            costs == {options[i].total_cost : i \in DOMAIN options}
            savings == {options[i].savings_vs_max : i \in DOMAIN options}
        IN  /\ \A i \in DOMAIN options :
                  /\ options[i].savings_vs_max >= 0
                  /\ \E c \in costs :
                        /\ \A d \in costs : c >= d
                        /\ options[i].savings_vs_max = c - options[i].total_cost
            /\ result.max_savings \in savings
            /\ \A v \in savings : result.max_savings >= v


-----------------------------------------------------------------------------
(* Claims about the /v3 handlers, checked under SpecService *)

IsSupplierComparison == op = "/v3/supplier-comparison"
IsActionList == op = "/v3/daily-action-list"
IsRecommendations == op = "/v3/recommendations"
IsHandled == IsSupplierComparison \/ IsActionList \/ IsRecommendations

\* the response the served request gets from a service that has just started
FreshResponse ==
    IF IsSupplierComparison
    THEN supplier_comparison(<< >>, default_suppliers, from_date, call.request).response
    ELSE IF IsActionList
    THEN daily_action_list(<< >>, default_suppliers, from_date, call.request).response
    ELSE generate_v3_recommendations(<< >>, default_suppliers, from_date, call.request,
                                     call.sales_history, call.library).response

\* the lists of supplier options of a response, in the order of the response
OptionLists(response) ==
    IF response.status # 200 THEN << >>
    ELSE IF IsSupplierComparison THEN << response.body.allOptions >>
    ELSE IF IsActionList
    THEN LET lists == response.body.actionList
             options(a) == [i \in DOMAIN lists[a] |-> lists[a][i].supplierOptions]
         IN  options("ORDER_TODAY") \o options("ORDER_SOON")
                 \o options("MONITOR") \o options("REDUCE_ORDERS")
    ELSE [i \in DOMAIN response.body.recommendations |->
             response.body.recommendations[i].supplierOptions]

OfferedSuppliers(response) ==
    LET lists == OptionLists(response)
    IN  UNION {{lists[i][j].supplier_id : j \in DOMAIN lists[i]} : i \in DOMAIN lists}

\* the supplier ids a price map names
Quoted(supplier_prices) ==
    {supplier_prices[i].supplier_id : i \in DOMAIN supplier_prices}

\* the supplier ids the served request gives a price for
QuotedSuppliers ==
    IF IsSupplierComparison THEN Quoted(call.request.supplierPrices)
    ELSE IF IsActionList
    THEN UNION {Quoted(Get(call.request.products[i], "supplierPrices", << >>)) :
                   i \in DOMAIN call.request.products}
    ELSE UNION {Quoted(call.request.supplierPrices[sku]) :
                   sku \in DOMAIN call.request.supplierPrices}

\* C22: the supplier options of a response are those a service that has just
\* started returns for the same request on the same date, and every option is
\* of a supplier the request gives a price for.
C22_OptionsFromRequestAlone ==
    IsHandled =>
        /\ OptionLists(result) = OptionLists(FreshResponse)
        /\ OfferedSuppliers(result) \subseteq QuotedSuppliers

\* the catalog's suppliers that have a price for the sku
Usable(catalog, table, sku) ==
    {i \in DOMAIN catalog : get_price(table, sku, catalog[i].id) # None}

\* C23: a comparison in which no supplier of the catalog has a price for the
\* sku has an empty all_options, and the handler that asked for it answers
\* with status 200.
C23_EmptyComparisonAnswered ==
    /\ \A sku \in Skus :
          Usable(suppliers, prices, sku) = {} =>
              compare_suppliers(suppliers, prices, sku, current_stock, daily_demand,
                                order_quantity, from_date).all_options = << >>
    /\ (IsSupplierComparison /\ Usable(suppliers, prices, call.request.sku) = {}) =>
          result.status = 200
    /\ (IsActionList \/ IsRecommendations) => result.status = 200

\* the entries of the four action lists, one list after the other
Listed(action_list) ==
    action_list["ORDER_TODAY"] \o action_list["ORDER_SOON"]
        \o action_list["MONITOR"] \o action_list["REDUCE_ORDERS"]

\* the number of places of a sequence whose sku is the given one
Occurrences(entries, sku) == Cardinality({i \in DOMAIN entries : entries[i].sku = sku})

\* C29: the three counts of a /v3/recommendations summary add up to
\* totalProducts, and the four lists of /v3/daily-action-list hold every
\* product of the request exactly once.
C29_CountsPartition ==
    /\ IsRecommendations =>
          LET summary == result.body.summary
          IN  summary.criticalProducts + summary.lowStockProducts
                  + summary.goodStockProducts = summary.totalProducts
    /\ IsActionList =>
          LET entries == Listed(result.body.actionList)
              products == call.request.products
          IN  /\ Len(entries) = Len(products)
              /\ \A sku \in Skus : Occurrences(entries, sku) = Occurrences(products, sku)

====
